---- MODULE Spec2Model ----
(***************************************************************************)
(* Social-Media-Downloader (src/smd/downloader.py): the configuration      *)
(* store (load_config, _validate_config, _save_config), the path organizer *)
(* (detect_platform_from_url, sanitize_filename,                           *)
(* get_organized_download_path), get_unique_filename, and the credential   *)
(* vault (_get_encryption_key, _encrypt_credential, _decrypt_credential,   *)
(* setup_instagram_login, get_instagram_credentials), the setup actions of  *)
(* the authentication menu, and the download operations                    *)
(* (download_youtube_or_tiktok_video, download_instagram_post,             *)
(* download_youtube_liked_videos, batch_download_from_file) with the       *)
(* history log (log_download).                                             *)
(*                                                                         *)
(* Python strings are sequences of one-character strings, so that str(),   *)
(* int(), lower(), replace(), strip() and the substring test are computed  *)
(* character by character.  Dictionary keys are atoms.                     *)
(***************************************************************************)
EXTENDS Integers, Sequences, FiniteSets, TLC

VARIABLES
    cfgFile,            \* config.json: [kind, top, doc]
    DEFAULT_CONFIG,     \* the module-level default document (a mutable dict)
    ret,                \* outcome of the latest load_config() call
    prev,               \* outcome of the load_config() call before it
    config,             \* the global config = load_config() (line 355)
    download_directory, \* the global download_directory (line 356)
    dirs,               \* the directories that exist
    pathCall,           \* the latest get_organized_download_path() call
    nCalls,             \* calls of get_organized_download_path() so far
    fnCall,             \* the latest call of a string function: [fn, arg, out]
    files,              \* the paths for which os.path.exists is true
    uq,                 \* the running or latest get_unique_filename() call
    keyFile,            \* .smd_key: [kind, id, mode]
    credFile,           \* .smd_credentials.json: [kind, top, pw, mode]
    keysMade,           \* keys Fernet.generate_key() has produced so far
    vaultCall,          \* the latest credential operation and its result
    procs,              \* concurrent callers of _encrypt_credential
    callers,            \* concurrent callers of get_organized_download_path
    video,              \* the latest video download and its output file
    history,            \* the rows of the history file
    clock,              \* the time datetime.now() gives
    dl,                 \* the download operation each thread is running
    batch               \* the running or latest batch_download_from_file()

cfgVars == <<cfgFile, DEFAULT_CONFIG, ret, prev>>
pathVars == <<config, download_directory, dirs, pathCall, nCalls>>
fnVars == <<fnCall>>
uqVars == <<files, uq>>
vaultVars == <<keyFile, credFile, keysMade, vaultCall, procs>>
runVars == <<callers, video, history, clock, dl, batch>>

\* F(v) with v computed a single time
once(v, F(_)) == CHOOSE r \in {F(x) : x \in {v}} : TRUE

-----------------------------------------------------------------------------
(* Characters and strings *)

UPPER == <<"A", "B", "C", "D", "E", "F", "G", "H", "I", "J", "K", "L", "M",
           "N", "O", "P", "Q", "R", "S", "T", "U", "V", "W", "X", "Y", "Z">>
LOWER == <<"a", "b", "c", "d", "e", "f", "g", "h", "i", "j", "k", "l", "m",
           "n", "o", "p", "q", "r", "s", "t", "u", "v", "w", "x", "y", "z">>
DIGITS == <<"0", "1", "2", "3", "4", "5", "6", "7", "8", "9">>

is_upper(c) == \E i \in DOMAIN UPPER : UPPER[i] = c
is_digit(c) == \E i \in DOMAIN DIGITS : DIGITS[i] = c
digit_val(c) == (CHOOSE i \in DOMAIN DIGITS : DIGITS[i] = c) - 1

\* str.lower(), one character
lower_char(c) ==
    IF is_upper(c) THEN LOWER[CHOOSE i \in DOMAIN UPPER : UPPER[i] = c] ELSE c

\* str.lower()
py_lower(s) == [i \in 1..Len(s) |-> lower_char(s[i])]

\* str.strip(chars): drop leading and trailing characters that are in chars
RECURSIVE lstrip(_, _)
lstrip(s, chars) ==
    IF s # <<>> /\ Head(s) \in chars THEN lstrip(Tail(s), chars) ELSE s

RECURSIVE rstrip(_, _)
rstrip(s, chars) ==
    IF s # <<>> /\ s[Len(s)] \in chars
    THEN rstrip(SubSeq(s, 1, Len(s) - 1), chars)
    ELSE s

py_strip(s, chars) == rstrip(lstrip(s, chars), chars)

WHITESPACE == {" ", "\t", "\n", "\r"}

\* decimal digits of a natural number
RECURSIVE nat_digits(_)
nat_digits(n) ==
    IF n < 10 THEN <<DIGITS[n + 1]>>
    ELSE nat_digits(n \div 10) \o <<DIGITS[(n % 10) + 1]>>

\* str(int)
int_to_str(n) == IF n < 0 THEN <<"-">> \o nat_digits(0 - n) ELSE nat_digits(n)

-----------------------------------------------------------------------------
(* JSON / Python values.  Every value is a record [t, s, n, a]:            *)
(*   t = "str"   : the string s                                            *)
(*   t = "int"   : the integer n                                           *)
(*   t = "bool"  : False (n = 0) or True (n = 1); bool is a subclass of int*)
(*   t = "float" : the finite float n / 10                                 *)
(*   t = "inf", "nan" : the floats json.load makes of Infinity/1e999, NaN   *)
(*   t = "null"  : None                                                    *)
(*   t = "list"  : the list [1]                                            *)
(*   t = "dict"  : a dict holding the keys k with a[k].t # "missing"       *)
(*   t = "alias" : a reference to the dict DEFAULT_CONFIG["authentication"]*)
(* The values inside a dict are records [t, s, n].                         *)

AUTH_KEYS == {"instagram_username", "use_browser_cookies", "cookie_browser",
              "session_directory"}

Missing == [t |-> "missing", s |-> <<>>, n |-> 0]
NoAuth == [k \in AUTH_KEYS |-> Missing]

JStr(x) == [t |-> "str", s |-> x, n |-> 0, a |-> NoAuth]
JInt(i) == [t |-> "int", s |-> <<>>, n |-> i, a |-> NoAuth]
JBool(b) == [t |-> "bool", s |-> <<>>, n |-> IF b THEN 1 ELSE 0, a |-> NoAuth]
JFloat(tenths) == [t |-> "float", s |-> <<>>, n |-> tenths, a |-> NoAuth]
JInf == [t |-> "inf", s |-> <<>>, n |-> 0, a |-> NoAuth]
JNaN == [t |-> "nan", s |-> <<>>, n |-> 0, a |-> NoAuth]
JNull == [t |-> "null", s |-> <<>>, n |-> 0, a |-> NoAuth]
JList == [t |-> "list", s |-> <<>>, n |-> 0, a |-> NoAuth]
JDict(d) == [t |-> "dict", s |-> <<>>, n |-> 0, a |-> d]
JAlias == [t |-> "alias", s |-> <<>>, n |-> 0, a |-> NoAuth]

LStr(x) == [t |-> "str", s |-> x, n |-> 0]
LBool(b) == [t |-> "bool", s |-> <<>>, n |-> IF b THEN 1 ELSE 0]

\* str(value)
py_str(v) ==
    CASE v.t = "str" -> v.s
      [] v.t = "int" -> int_to_str(v.n)
      [] v.t = "bool" -> IF v.n = 1 THEN <<"T", "r", "u", "e">>
                         ELSE <<"F", "a", "l", "s", "e">>
      [] v.t = "float" ->
            LET m == IF v.n < 0 THEN 0 - v.n ELSE v.n
                body == nat_digits(m \div 10) \o <<".">> \o nat_digits(m % 10)
            IN  IF v.n < 0 THEN <<"-">> \o body ELSE body
      [] v.t = "inf" -> <<"i", "n", "f">>
      [] v.t = "nan" -> <<"n", "a", "n">>
      [] v.t = "null" -> <<"N", "o", "n", "e">>
      [] v.t = "list" -> <<"[", "1", "]">>
      [] OTHER -> <<"{">> \o (IF \A k \in AUTH_KEYS : v.a[k].t = "missing"
                              THEN <<>> ELSE <<"'", ".", ".", ".">>) \o <<"}">>

\* int(str): surrounding whitespace, an optional sign, digits with single
\* underscores between them; anything else is a ValueError
int_literal_ok(b) ==
    /\ b # <<>>
    /\ \A i \in 1..Len(b) :
          \/ is_digit(b[i])
          \/ /\ b[i] = "_"
             /\ 1 < i /\ i < Len(b)
             /\ is_digit(b[i - 1]) /\ is_digit(b[i + 1])

RECURSIVE int_literal_val(_, _)
int_literal_val(b, acc) ==
    IF b = <<>> THEN acc
    ELSE IF Head(b) = "_" THEN int_literal_val(Tail(b), acc)
    ELSE int_literal_val(Tail(b), 10 * acc + digit_val(Head(b)))

\* int(value): [exc, n]; exc = "" when the conversion succeeds
py_int(v) ==
    CASE v.t \in {"int", "bool"} -> [exc |-> "", n |-> v.n]
      [] v.t = "float" ->
            [exc |-> "",
             n |-> IF v.n < 0 THEN 0 - ((0 - v.n) \div 10) ELSE v.n \div 10]
      [] v.t = "inf" -> [exc |-> "OverflowError", n |-> 0]
      [] v.t = "nan" -> [exc |-> "ValueError", n |-> 0]
      [] v.t = "str" ->
            LET t == py_strip(v.s, WHITESPACE)
                signed == t # <<>> /\ Head(t) \in {"+", "-"}
                body == IF signed THEN Tail(t) ELSE t
                mag == int_literal_val(body, 0)
            IN  IF int_literal_ok(body)
                THEN [exc |-> "",
                      n |-> IF signed /\ Head(t) = "-" THEN 0 - mag ELSE mag]
                ELSE [exc |-> "ValueError", n |-> 0]
      [] OTHER -> [exc |-> "TypeError", n |-> 0]

\* isinstance(value, bool)
is_bool(v) == v.t = "bool"

-----------------------------------------------------------------------------
(* Documents: functions from a set of keys to values *)

KEYS == {"default_format", "download_directory", "history_file", "mp3_quality",
         "organize_downloads", "download_metadata", "download_comments",
         "download_subtitles", "max_comments", "authentication"}

BOOL_KEYS == {"organize_downloads", "download_metadata", "download_comments",
              "download_subtitles"}

EmptyDoc == [k \in {} |-> JNull]

\* dict.get(key, default)
py_get(d, k, dflt) == IF k \in DOMAIN d THEN d[k] ELSE dflt

\* d[key] = value
py_set(d, k, v) == [x \in (DOMAIN d) \cup {k} |-> IF x = k THEN v ELSE d[x]]

DEFAULT_AUTH ==
    [k \in AUTH_KEYS |->
        CASE k = "instagram_username" -> LStr(<<>>)
          [] k = "use_browser_cookies" -> LBool(TRUE)
          [] k = "cookie_browser" -> LStr(<<"c", "h", "r", "o", "m", "e">>)
          [] OTHER -> LStr(<<".", "s", "m", "d", "_", "s", "e", "s", "s", "i",
                             "o", "n", "s">>)]

\* the literal DEFAULT_CONFIG = {...}
DEFAULT_CONFIG_LITERAL ==
    [k \in KEYS |->
        CASE k = "default_format" ->
                JStr(<<"s", "h", "o", "w", "_", "a", "l", "l">>)
          [] k = "download_directory" -> JStr(<<"m", "e", "d", "i", "a">>)
          [] k = "history_file" ->
                JStr(<<"d", "o", "w", "n", "l", "o", "a", "d", "_", "h", "i",
                      "s", "t", "o", "r", "y", ".", "c", "s", "v">>)
          [] k = "mp3_quality" -> JStr(<<"1", "9", "2">>)
          [] k = "organize_downloads" -> JBool(TRUE)
          [] k = "download_metadata" -> JBool(TRUE)
          [] k = "download_comments" -> JBool(FALSE)
          [] k = "download_subtitles" -> JBool(FALSE)
          [] k = "max_comments" -> JInt(200)
          [] OTHER -> JDict(DEFAULT_AUTH)]

VALID_DEFAULT_FORMATS ==
    {<<"s", "h", "o", "w", "_", "a", "l", "l">>, <<"m", "p", "3">>,
     <<"3", "6", "0", "p">>, <<"4", "8", "0", "p">>, <<"7", "2", "0", "p">>,
     <<"1", "0", "8", "0", "p">>, <<"1", "4", "4", "0", "p">>,
     <<"2", "1", "6", "0", "p">>, <<"4", "3", "2", "0", "p">>}

VALID_MP3_QUALITIES ==
    {<<"6", "4">>, <<"1", "2", "8">>, <<"1", "9", "2">>, <<"2", "5", "6">>,
     <<"3", "2", "0">>, <<"3", "9", "6">>}

\* DEFAULT_CONFIG.copy(): a shallow copy, the nested dict is shared
default_copy(dc) == [k \in DOMAIN dc |-> IF dc[k].t = "dict" THEN JAlias ELSE dc[k]]

\* what json.dump writes of a value / a document: an aliased dict is written
\* with the content the shared dict has at that moment
dump_value(v, dc) == IF v.t = "alias" THEN dc["authentication"] ELSE v
json_dump(d, dc) == [k \in DOMAIN d |-> dump_value(d[k], dc)]

-----------------------------------------------------------------------------
(* _validate_config *)

\* lines 265-272: add the keys the document lacks; the value put in is the
\* default's own object, so a missing "authentication" becomes the shared dict
fill_missing(st, dc) ==
    [st EXCEPT
        !.doc = [k \in (DOMAIN st.doc) \cup (DOMAIN dc) |->
                    IF k \in DOMAIN st.doc THEN st.doc[k]
                    ELSE IF dc[k].t = "dict" THEN JAlias ELSE dc[k]],
        !.changed = st.changed \/ (DOMAIN dc) \ (DOMAIN st.doc) # {}]

\* lines 274-279
validate_mp3_quality(st) ==
    LET mp3_quality == py_str(py_get(st.doc, "mp3_quality", JStr(<<"1", "9", "2">>)))
    IN  IF mp3_quality \notin VALID_MP3_QUALITIES
        THEN [st EXCEPT !.doc = py_set(st.doc, "mp3_quality", JStr(<<"1", "9", "2">>)),
                        !.changed = TRUE]
        ELSE st

\* a variant that compares without lower-casing
validate_default_format_exact(st) ==
    LET default_format ==
            py_str(py_get(st.doc, "default_format",
                          JStr(<<"s", "h", "o", "w", "_", "a", "l", "l">>)))
    IN  IF default_format \notin VALID_DEFAULT_FORMATS
        THEN [st EXCEPT
                !.doc = py_set(st.doc, "default_format",
                               JStr(<<"s", "h", "o", "w", "_", "a", "l", "l">>)),
                !.changed = TRUE]
        ELSE st

\* lines 281-288
validate_default_format(st) ==
    LET default_format ==
            py_lower(py_str(py_get(st.doc, "default_format",
                                   JStr(<<"s", "h", "o", "w", "_", "a", "l", "l">>))))
    IN  IF default_format \notin VALID_DEFAULT_FORMATS
        THEN [st EXCEPT
                !.doc = py_set(st.doc, "default_format",
                               JStr(<<"s", "h", "o", "w", "_", "a", "l", "l">>)),
                !.changed = TRUE]
        ELSE st

\* the value each boolean block writes when the value is no bool
\* (lines 296, 305, 314, 323)
bool_reset_value(key) == IF key = "download_metadata" THEN JBool(TRUE) ELSE JBool(FALSE)

\* lines 290-324, one block per key
validate_bool(st, key) ==
    IF ~is_bool(py_get(st.doc, key, bool_reset_value(key)))
    THEN [st EXCEPT !.doc = py_set(st.doc, key, bool_reset_value(key)),
                    !.changed = TRUE]
    ELSE st

\* lines 326-339: int() may raise; ValueError and TypeError are caught,
\* any other exception leaves the function
validate_max_comments(st) ==
    LET c == py_int(py_get(st.doc, "max_comments", JInt(200)))
    IN  IF c.exc \in {"ValueError", "TypeError"} \/ (c.exc = "" /\ (c.n < 1 \/ c.n > 10000))
        THEN [st EXCEPT !.doc = py_set(st.doc, "max_comments", JInt(200)),
                        !.changed = TRUE]
        ELSE IF c.exc # ""
        THEN [st EXCEPT !.exc = c.exc]
        ELSE [st EXCEPT !.doc = py_set(st.doc, "max_comments", JInt(c.n))]

\* lines 253-341.  top is the type of the parsed top-level value: on anything
\* but a dict the first membership test or item assignment raises TypeError
_validate_config(top, doc, dc) ==
    IF top # "dict"
    THEN [doc |-> doc, changed |-> FALSE, exc |-> "TypeError"]
    ELSE once(fill_missing([doc |-> doc, changed |-> FALSE, exc |-> ""], dc), LAMBDA s1 :
         once(validate_mp3_quality(s1), LAMBDA s2 :
         once(validate_default_format(s2), LAMBDA s3 :
         once(validate_bool(s3, "organize_downloads"), LAMBDA s4 :
         once(validate_bool(s4, "download_metadata"), LAMBDA s5 :
         once(validate_bool(s5, "download_comments"), LAMBDA s6 :
         once(validate_bool(s6, "download_subtitles"), LAMBDA s7 :
         validate_max_comments(s7))))))))

-----------------------------------------------------------------------------
(* The configuration file and load_config *)

AbsentFile == [kind |-> "absent", top |-> "", doc |-> EmptyDoc]
\* exists, but open() for reading fails with an OSError
UnreadableFile == [kind |-> "unreadable", top |-> "", doc |-> EmptyDoc]
\* bytes that are not UTF-8: reading raises UnicodeDecodeError
NotUtf8File == [kind |-> "not_utf8", top |-> "", doc |-> EmptyDoc]
\* text that is not JSON (also an empty or truncated file): JSONDecodeError
GarbageFile == [kind |-> "garbage", top |-> "", doc |-> EmptyDoc]
\* JSON text whose top-level value has type top
JsonFile(top, doc) == [kind |-> "json", top |-> top, doc |-> doc]

\* how an open(..., "w") + json.dump can end: written; open() fails and the
\* file is as before; open() truncates and the write fails part-way
WRITE_OUTCOMES == {"ok", "denied", "partial"}

write_file(file, doc, dc, w) ==
    CASE w = "ok" -> JsonFile("dict", json_dump(doc, dc))
      [] w = "denied" -> file
      [] OTHER -> GarbageFile

\* a variant that leaves the corrected document unsaved
_save_config_skipped(file, doc, dc, w) == file

\* lines 344-351: the IOError is logged, not raised
_save_config(file, doc, dc, w) == write_file(file, doc, dc, w)

NoCall ==
    [st |-> "none", exc |-> "", doc |-> EmptyDoc, changed |-> FALSE,
     wrote |-> FALSE, wfail |-> FALSE, pre |-> AbsentFile]

\* A result of load_config: st = "ok" (doc is returned) or "raise" (the
\* exception exc left the function); changed = config_changed; wrote = a write
\* of the file was attempted; wfail = that write failed; pre and file = the
\* file before and after the call
result(st, exc, doc, changed, wrote, w, pre, file) ==
    [st |-> st, exc |-> exc, doc |-> doc, changed |-> changed,
     wrote |-> wrote, wfail |-> wrote /\ w # "ok", pre |-> pre, file |-> file]

\* a variant without the except clause: a failed write raises
create_config_unguarded(file, dc, w) ==
    IF w = "ok"
    THEN result("ok", "", default_copy(dc), FALSE, TRUE, w, file,
                write_file(file, dc, dc, w))
    ELSE result("raise", "OSError", EmptyDoc, FALSE, TRUE, w, file,
                write_file(file, dc, dc, w))

\* lines 224-233: no file; write the defaults and return a copy of them, also
\* when the write raises IOError
create_config(file, dc, w) ==
    result("ok", "", default_copy(dc), FALSE, TRUE, w, file,
           write_file(file, dc, dc, w))

\* lines 235-241: open and parse.  OSError and JSONDecodeError are caught;
\* UnicodeDecodeError is neither
read_config(file) ==
    CASE file.kind = "unreadable" -> [exc |-> "OSError", top |-> "", doc |-> EmptyDoc]
      [] file.kind = "garbage" -> [exc |-> "JSONDecodeError", top |-> "", doc |-> EmptyDoc]
      [] file.kind = "not_utf8" -> [exc |-> "UnicodeDecodeError", top |-> "", doc |-> EmptyDoc]
      [] OTHER -> [exc |-> "", top |-> file.top, doc |-> file.doc]

\* lines 215-250
load_config(file, dc, w) ==
    IF file.kind = "absent" THEN create_config(file, dc, w)
    ELSE once(read_config(file), LAMBDA rd :
         IF rd.exc \in {"OSError", "JSONDecodeError"}
         THEN result("ok", "", default_copy(dc), FALSE, FALSE, w, file, file)
         ELSE IF rd.exc # ""
         THEN result("raise", rd.exc, EmptyDoc, FALSE, FALSE, w, file, file)
         ELSE once(_validate_config(rd.top, rd.doc, dc), LAMBDA v :
              CASE v.exc # "" ->
                     result("raise", v.exc, EmptyDoc, FALSE, FALSE, w, file, file)
                [] v.changed ->
                     result("ok", "", v.doc, TRUE, TRUE, w, file,
                            _save_config(file, v.doc, dc, w))
                [] OTHER ->
                     result("ok", "", v.doc, FALSE, FALSE, w, file, file)))

\* the part of a load_config result kept as the outcome of the call
outcome(r) ==
    [st |-> r.st, exc |-> r.exc, doc |-> r.doc, changed |-> r.changed,
     wrote |-> r.wrote, wfail |-> r.wfail, pre |-> r.pre]

-----------------------------------------------------------------------------
(* The path organizer *)

\* sub in s
contains(s, sub) ==
    \E i \in 0..(Len(s) - Len(sub)) : \A j \in 1..Len(sub) : s[i + j] = sub[j]

\* lines 1085-1109, in insertion order
platform_map ==
    << << <<"y", "o", "u", "t", "u", "b", "e", ".", "c", "o", "m">>,
          <<"Y", "o", "u", "T", "u", "b", "e">> >>,
       << <<"y", "o", "u", "t", "u", ".", "b", "e">>,
          <<"Y", "o", "u", "T", "u", "b", "e">> >>,
       << <<"t", "i", "k", "t", "o", "k", ".", "c", "o", "m">>,
          <<"T", "i", "k", "T", "o", "k">> >>,
       << <<"i", "n", "s", "t", "a", "g", "r", "a", "m", ".", "c", "o", "m">>,
          <<"I", "n", "s", "t", "a", "g", "r", "a", "m">> >>,
       << <<"f", "a", "c", "e", "b", "o", "o", "k", ".", "c", "o", "m">>,
          <<"F", "a", "c", "e", "b", "o", "o", "k">> >>,
       << <<"f", "b", ".", "w", "a", "t", "c", "h">>,
          <<"F", "a", "c", "e", "b", "o", "o", "k">> >>,
       << <<"x", ".", "c", "o", "m">>,
          <<"X">> >>,
       << <<"t", "w", "i", "t", "t", "e", "r", ".", "c", "o", "m">>,
          <<"X">> >>,
       << <<"t", "w", "i", "t", "c", "h", ".", "t", "v">>,
          <<"T", "w", "i", "t", "c", "h">> >>,
       << <<"c", "l", "i", "p", "s", ".", "t", "w", "i", "t", "c", "h", ".", "t", "v">>,
          <<"T", "w", "i", "t", "c", "h">> >>,
       << <<"s", "n", "a", "p", "c", "h", "a", "t", ".", "c", "o", "m">>,
          <<"S", "n", "a", "p", "c", "h", "a", "t">> >>,
       << <<"r", "e", "d", "d", "i", "t", ".", "c", "o", "m">>,
          <<"R", "e", "d", "d", "i", "t">> >>,
       << <<"v", "i", "m", "e", "o", ".", "c", "o", "m">>,
          <<"V", "i", "m", "e", "o">> >>,
       << <<"d", "a", "i", "l", "y", "m", "o", "t", "i", "o", "n", ".", "c", "o", "m">>,
          <<"D", "a", "i", "l", "y", "m", "o", "t", "i", "o", "n">> >>,
       << <<"d", "a", "i", ".", "l", "y">>,
          <<"D", "a", "i", "l", "y", "m", "o", "t", "i", "o", "n">> >>,
       << <<"r", "u", "m", "b", "l", "e", ".", "c", "o", "m">>,
          <<"R", "u", "m", "b", "l", "e">> >>,
       << <<"o", "d", "y", "s", "e", "e", ".", "c", "o", "m">>,
          <<"O", "d", "y", "s", "e", "e">> >>,
       << <<"b", "i", "l", "i", "b", "i", "l", "i", ".", "t", "v">>,
          <<"B", "i", "l", "i", "b", "i", "l", "i">> >>,
       << <<"p", "i", "n", "t", "e", "r", "e", "s", "t", ".", "c", "o", "m">>,
          <<"P", "i", "n", "t", "e", "r", "e", "s", "t">> >>,
       << <<"p", "i", "n", ".", "i", "t">>,
          <<"P", "i", "n", "t", "e", "r", "e", "s", "t">> >>,
       << <<"l", "i", "n", "k", "e", "d", "i", "n", ".", "c", "o", "m">>,
          <<"L", "i", "n", "k", "e", "d", "I", "n">> >>,
       << <<"w", "e", "i", "b", "o", ".", "c", "o", "m">>,
          <<"W", "e", "i", "b", "o">> >>,
       << <<"t", "u", "m", "b", "l", "r", ".", "c", "o", "m">>,
          <<"T", "u", "m", "b", "l", "r">> >> >>

\* detect_platform_from_url without the lower() of line 1082
detect_platform_case_sensitive(url) ==
    LET hits == {i \in DOMAIN platform_map : contains(url, platform_map[i][1])}
    IN  IF hits = {} THEN <<"O", "t", "h", "e", "r">>
        ELSE platform_map[CHOOSE i \in hits : \A j \in hits : i <= j][2]

\* lines 1072-1115: the first entry, in table order, whose domain occurs in
\* the lower-cased URL
detect_platform_from_url(url) ==
    LET url_lower == py_lower(url)
        hits == {i \in DOMAIN platform_map : contains(url_lower, platform_map[i][1])}
    IN  IF hits = {} THEN <<"O", "t", "h", "e", "r">>
        ELSE platform_map[CHOOSE i \in hits : \A j \in hits : i <= j][2]

\* line 1132
invalid_chars == <<"<", ">", ":", "\"", "/", "\\", "|", "?", "*">>

\* str.replace(old, new) for single characters
py_replace(s, old, new) == [i \in 1..Len(s) |-> IF s[i] = old THEN new ELSE s[i]]

\* lines 1133-1134: for char in invalid_chars: name = name.replace(char, "_")
RECURSIVE replace_each(_, _)
replace_each(name, chars) ==
    IF chars = <<>> THEN name
    ELSE replace_each(py_replace(name, Head(chars), "_"), Tail(chars))

\* line 1140
MAX_NAME_LENGTH == 100

LNull == [t |-> "null", s |-> <<>>, n |-> 0]

\* sanitize_filename with the cut of lines 1140-1141 moved before the strip
\* of line 1137
sanitize_filename_cut_first(name) ==
    IF name.t # "str" \/ name.s = <<>> \/ py_strip(name.s, WHITESPACE) = <<>>
    THEN <<"U", "n", "k", "n", "o", "w", "n">>
    ELSE LET replaced == replace_each(name.s, invalid_chars)
             cut == IF Len(replaced) > MAX_NAME_LENGTH
                    THEN SubSeq(replaced, 1, MAX_NAME_LENGTH)
                    ELSE replaced
             stripped == py_strip(cut, {".", " "})
         IN  IF stripped # <<>> THEN stripped ELSE <<"U", "n", "k", "n", "o", "w", "n">>

\* lines 1118-1144; name is None or a string
sanitize_filename(name) ==
    IF name.t # "str" \/ name.s = <<>> \/ py_strip(name.s, WHITESPACE) = <<>>
    THEN <<"U", "n", "k", "n", "o", "w", "n">>
    ELSE LET replaced == replace_each(name.s, invalid_chars)
             stripped == py_strip(replaced, {".", " "})
             cut == IF Len(stripped) > MAX_NAME_LENGTH
                    THEN SubSeq(stripped, 1, MAX_NAME_LENGTH)
                    ELSE stripped
         IN  IF cut # <<>> THEN cut ELSE <<"U", "n", "k", "n", "o", "w", "n">>

\* os.path.join(a, b) on POSIX
os_path_join(a, b) ==
    IF b # <<>> /\ Head(b) = "/" THEN b
    ELSE IF a = <<>> \/ a[Len(a)] = "/" THEN a \o b
    ELSE a \o <<"/">> \o b

\* os.makedirs(path, exist_ok=True): the path and every ancestor of it
makedirs(existing, path) ==
    existing \cup {path}
         \cup {SubSeq(path, 1, i - 1) : i \in {j \in 2..Len(path) : path[j] = "/"}}

\* bool(value) of a configuration value
py_truth(v) ==
    CASE v.t \in {"bool", "int", "float"} -> v.n # 0
      [] v.t = "str" -> v.s # <<>>
      [] v.t = "null" -> FALSE
      [] v.t = "dict" -> \E k \in AUTH_KEYS : v.a[k].t # "missing"
      [] OTHER -> TRUE

\* bool(x) of an optional string / of a metadata dict
truthy(v) == v.t = "str" /\ v.s # <<>>
info_truthy(info) ==
    info.given /\ (info.other \/ info.uploader.t # "missing" \/ info.channel.t # "missing")

\* lines 1171: info.get("uploader", info.get("channel", "Unknown"))
info_uploader(info) ==
    IF info.uploader.t # "missing" THEN info.uploader
    ELSE IF info.channel.t # "missing" THEN info.channel
    ELSE LStr(<<"U", "n", "k", "n", "o", "w", "n">>)

\* get_organized_download_path without the test of lines 1161-1162
get_organized_download_path_always(cfg, base, existing, url, info, uploader_override) ==
    LET platform == detect_platform_from_url(url)
        uploader == IF truthy(uploader_override) THEN uploader_override
                    ELSE IF info_truthy(info) THEN info_uploader(info)
                    ELSE LStr(<<"U", "n", "k", "n", "o", "w", "n">>)
        organized_path ==
            os_path_join(os_path_join(base, platform), sanitize_filename(uploader))
    IN  [path |-> organized_path, dirs |-> makedirs(existing, organized_path)]

\* lines 1147-1182: [path, dirs] the returned path and the directories after
get_organized_download_path(cfg, base, existing, url, info, uploader_override) ==
    IF ~py_truth(py_get(cfg, "organize_downloads", JBool(FALSE)))
    THEN [path |-> base, dirs |-> existing]
    ELSE LET platform == detect_platform_from_url(url)
             uploader == IF truthy(uploader_override) THEN uploader_override
                         ELSE IF info_truthy(info) THEN info_uploader(info)
                         ELSE LStr(<<"U", "n", "k", "n", "o", "w", "n">>)
             organized_path ==
                 os_path_join(os_path_join(base, platform), sanitize_filename(uploader))
         IN  [path |-> organized_path, dirs |-> makedirs(existing, organized_path)]

-----------------------------------------------------------------------------
(* The configuration files the runs start from *)

\* how many settings of a starting document differ from the default document
MaxOdd == 1

JMissing == [t |-> "missing", s |-> <<>>, n |-> 0, a |-> NoAuth]

\* values a hand-edited file may hold for a key, other than the default
ODD_VALUES(k) ==
    CASE k = "mp3_quality" ->
            {JStr(<<"3", "2", "0">>), JStr(<<"1", "9", "3">>), JInt(192), JInt(100),
             JFloat(1920), JBool(TRUE), JNull}
      [] k = "default_format" ->
            {JStr(<<"m", "p", "3">>), JStr(<<"M", "P", "3">>),
             JStr(<<"7", "2", "0", "P">>), JStr(<<"a", "v", "i">>), JInt(360), JNull}
      [] k = "max_comments" ->
            {JInt(1), JInt(10000), JInt(10001), JInt(0), JInt(0 - 3),
             JStr(<<"5", "0">>), JStr(<<" ", "7", " ">>), JStr(<<"a", "b", "c">>),
             JStr(<<"2", ".", "5">>), JStr(<<"1", "_", "0">>), JStr(<<"-", "5">>),
             JFloat(25), JFloat(5), JBool(TRUE), JBool(FALSE),
             JInf, JNaN, JNull, JList}
      [] k = "download_directory" -> {JStr(<<"d", "l">>)}
      [] k = "history_file" -> {JStr(<<"h", ".", "c", "s", "v">>)}
      [] k = "authentication" ->
            {JDict(NoAuth),
             JDict([DEFAULT_AUTH EXCEPT !["instagram_username"] = LStr(<<"b", "o", "b">>)]),
             JDict([DEFAULT_AUTH EXCEPT !["cookie_browser"] = Missing]),
             JStr(<<"x">>), JNull}
      [] OTHER ->
            {JBool(DEFAULT_CONFIG_LITERAL[k].n = 0), JStr(<<"y", "e", "s">>), JInt(1),
             JNull}

\* the document d with key k edited to v, or with k deleted
edit_doc(d, k, v) ==
    IF v.t = "missing" THEN [x \in (DOMAIN d) \ {k} |-> d[x]] ELSE py_set(d, k, v)

RECURSIVE odd_docs(_, _)
odd_docs(docs, n) ==
    IF n = 0 THEN docs
    ELSE odd_docs(docs \cup UNION {{edit_doc(d, k, v) :
                                        d \in docs,
                                        v \in ODD_VALUES(k) \cup {JMissing}} :
                                    k \in KEYS}, n - 1)

START_DOCS == odd_docs({DEFAULT_CONFIG_LITERAL}, MaxOdd) \cup {EmptyDoc}

START_FILES ==
    {AbsentFile, UnreadableFile, NotUtf8File, GarbageFile}
    \cup {JsonFile(t, EmptyDoc) : t \in {"list", "str", "num", "null"}}
    \cup {JsonFile("dict", d) : d \in START_DOCS}

-----------------------------------------------------------------------------
(* The configuration store as a state machine *)

NoInfo == [given |-> FALSE, other |-> FALSE, uploader |-> Missing, channel |-> Missing]
NoPathCall ==
    [st |-> "none", url |-> <<>>, info |-> NoInfo, override |-> LNull, path |-> <<>>]

NoFnCall == [fn |-> "none", arg |-> <<>>, out |-> <<>>]

\* no configuration loaded
CfgIdle ==
    /\ cfgFile = AbsentFile
    /\ DEFAULT_CONFIG = DEFAULT_CONFIG_LITERAL
    /\ ret = NoCall
    /\ prev = NoCall

\* the module globals of lines 355-356 not yet set
PathIdle ==
    /\ config = EmptyDoc
    /\ download_directory = <<>>
    /\ dirs = {}
    /\ pathCall = NoPathCall
    /\ nCalls = 0

FnIdle == fnCall = NoFnCall

NoUnique == [pc |-> "idle", filename |-> <<>>, base |-> <<>>, ext |-> <<>>,
             counter |-> 0, new_filename |-> <<>>, result |-> <<>>]

UqIdle == files = {} /\ uq = NoUnique

\* A ciphertext as a value: t = "b64" the text _encrypt_credential returns
\* (a Fernet token, base64-encoded once more); "fernet" a bare Fernet token;
\* "garbage" text that is no base64; "empty" the string ""; "nonstr" a JSON
\* value that is no string; "missing" no value.  key = the key the token was
\* made with, data = the encrypted bytes, intact = the token is unmodified.
CText(t, key, data, intact) == [t |-> t, key |-> key, data |-> data, intact |-> intact]
NoCipher == CText("missing", 0, <<>>, FALSE)

AbsentKey == [kind |-> "absent", id |-> 0, mode |-> ""]
AbsentCred == [kind |-> "absent", top |-> "", pw |-> NoCipher, mode |-> ""]

NoVaultCall ==
    [op |-> "none", st |-> "", exc |-> "", username |-> LStr(<<>>), plain |-> <<>>,
     cipher |-> NoCipher, out |-> <<>>, outc |-> NoCipher, ret |-> FALSE,
     login |-> FALSE]

PROCS == {1, 2}

NoProc == [pc |-> "idle", secret |-> <<>>, key |-> 0, valid |-> FALSE,
           token |-> NoCipher, out |-> <<>>]

VaultIdle ==
    /\ keyFile = AbsentKey
    /\ credFile = AbsentCred
    /\ keysMade = 0
    /\ vaultCall = NoVaultCall
    /\ procs = [p \in PROCS |-> NoProc]

\* the threads of the process: 0 is the main thread, the others are the
\* threads a pool may start
WORKERS == {1, 2, 3}
POOL == WORKERS \cup {4}
THREADS == {0} \cup POOL

NoCaller == [pc |-> "idle", url |-> <<>>, uploader |-> LNull, path |-> <<>>,
             stack |-> <<>>, st |-> "", n |-> 0, clash |-> FALSE]

NoVideo == [n |-> 0, title |-> <<>>, choice |-> <<>>, outtmpl |-> <<>>,
            output |-> <<>>, before |-> {}]

NoThread == [pc |-> "idle", op |-> "", url |-> <<>>, events |-> <<>>,
             status |-> <<>>, raised |-> FALSE, task |-> 0]

NoBatch == [pc |-> "idle", exists |-> FALSE, lines |-> <<>>, urls |-> <<>>,
            taken |-> 0, finished |-> <<>>]

RunIdle ==
    /\ callers = [c \in WORKERS |-> NoCaller]
    /\ video = NoVideo
    /\ history = <<>>
    /\ clock = 0
    /\ dl = [t \in THREADS |-> NoThread]
    /\ batch = NoBatch

InitCfg ==
    /\ cfgFile \in START_FILES
    /\ DEFAULT_CONFIG = DEFAULT_CONFIG_LITERAL
    /\ ret = NoCall
    /\ prev = NoCall

\* one call of load_config(), at import (line 355) or from a function
LoadConfig(w) ==
    LET r == load_config(cfgFile, DEFAULT_CONFIG, w)
    IN  /\ cfgFile' = r.file
        /\ ret' = outcome(r)
        /\ prev' = ret
        /\ UNCHANGED DEFAULT_CONFIG
        /\ UNCHANGED pathVars
        /\ UNCHANGED <<fnVars, uqVars, vaultVars, runVars>>

Init ==
    /\ InitCfg
    /\ PathIdle
    /\ FnIdle /\ RunIdle
    /\ UqIdle
    /\ VaultIdle

Next == \E w \in WRITE_OUTCOMES : LoadConfig(w)

vars == <<cfgVars, pathVars, fnVars, uqVars, vaultVars, runVars>>

Spec == Init /\ [][Next]_vars

-----------------------------------------------------------------------------
(* The path organizer as a state machine: the module has been imported      *)
(* (lines 355-366), then get_organized_download_path is called              *)

\* calls of get_organized_download_path in a run
MaxCalls == 1

PATH_START_FILES ==
    {AbsentFile,
     JsonFile("dict", py_set(DEFAULT_CONFIG_LITERAL, "organize_downloads", JBool(FALSE))),
     JsonFile("dict", py_set(DEFAULT_CONFIG_LITERAL, "organize_downloads",
                             JStr(<<"y", "e", "s">>))),
     JsonFile("dict", py_set(DEFAULT_CONFIG_LITERAL, "download_directory",
                             JStr(<<"d", "l">>)))}

URLS ==
    {<<"h", "t", "t", "p", "s", ":", "/", "/", "y", "o", "u", "t", "u", ".", "b", "e",
       "/", "x", "y", "z">>,
     <<"T", "i", "k", "T", "o", "k", ".", "c", "o", "m", "/", "v">>,
     <<"h", "t", "t", "p", "s", ":", "/", "/", "e", "x", "a", "m", "p", "l", "e", ".",
       "c", "o", "m", "/", "v", "i", "d", "e", "o">>}

META == [given |-> TRUE, other |-> TRUE, uploader |-> Missing, channel |-> Missing]

\* metadata as yt-dlp gives it: absent, empty, or a dict whose uploader and
\* channel are missing, null or strings
INFOS ==
    {NoInfo,
     [META EXCEPT !.other = FALSE],
     META,
     [META EXCEPT !.uploader = LStr(<<"a", "/", "b", ".">>)],
     [META EXCEPT !.uploader = LStr(<<" ", ".", " ">>),
                  !.channel = LStr(<<"C", "h", "a", "n">>)],
     [META EXCEPT !.channel = LStr(<<"C", "h", "a", "n">>)],
     [META EXCEPT !.uploader = LNull, !.channel = LStr(<<"C", "h", "a", "n">>)],
     [META EXCEPT !.uploader = LStr(<<>>), !.channel = LStr(<<"C", "h", "a", "n">>)],
     [META EXCEPT !.uploader = LStr(<<"U", "p">>), !.channel = LNull]}

OVERRIDES == {LNull, LStr(<<>>), LStr(<<"o", ":", "v">>)}

InitPath ==
    /\ \E f \in PATH_START_FILES :
          LET r == load_config(f, DEFAULT_CONFIG_LITERAL, "ok")
              dd == py_get(r.doc, "download_directory", JStr(<<"m", "e", "d", "i", "a">>)).s
          IN  /\ cfgFile = r.file
              /\ ret = outcome(r)
              /\ config = r.doc
              /\ download_directory = dd
              /\ dirs = makedirs({}, dd)
    /\ DEFAULT_CONFIG = DEFAULT_CONFIG_LITERAL
    /\ prev = NoCall
    /\ pathCall = NoPathCall
    /\ nCalls = 0
    /\ FnIdle /\ RunIdle
    /\ UqIdle
    /\ VaultIdle

GetOrganizedDownloadPath(url, info, uploader_override) ==
    LET r == get_organized_download_path(config, download_directory, dirs, url, info,
                                         uploader_override)
    IN  /\ nCalls < MaxCalls
        /\ nCalls' = nCalls + 1
        /\ dirs' = r.dirs
        /\ pathCall' = [st |-> "ok", url |-> url, info |-> info,
                        override |-> uploader_override, path |-> r.path]
        /\ UNCHANGED <<config, download_directory>>
        /\ UNCHANGED cfgVars
        /\ UNCHANGED <<fnVars, uqVars, vaultVars, runVars>>

NextPath ==
    \E url \in URLS, info \in INFOS, o \in OVERRIDES :
        GetOrganizedDownloadPath(url, info, o)

SpecPath == InitPath /\ [][NextPath]_vars

-----------------------------------------------------------------------------
(* The string functions sanitize_filename and detect_platform_from_url,    *)
(* called on their own                                                     *)

\* length of the short names tried
MaxLen == 3

NAME_CHARS == {"a", ".", " ", "/", "\t"}

\* every string over cs of length at most n
RECURSIVE strings_upto(_, _)
strings_upto(cs, n) ==
    IF n = 0 THEN {<<>>}
    ELSE LET shorter == strings_upto(cs, n - 1)
         IN  shorter \cup {Append(x, c) : x \in shorter, c \in cs}

repeat(c, n) == [i \in 1..n |-> c]

\* names around the length limit of line 1140
LONG_NAMES ==
    {repeat("a", n) : n \in {99, 100, 101, 150}}
    \cup {repeat("a", 99) \o <<".", " ", "b">>,
          <<" ", ".">> \o repeat("a", 100) \o <<".">>,
          <<"?">> \o repeat("b", 99) \o <<":", "c">>,
          repeat(".", 120),
          <<"<", ">", ":", "\"", "/", "\\", "|", "?", "*">>,
          <<"J", "o", "h", "n", " ", "D", "o", "e">>}

NAMES == strings_upto(NAME_CHARS, MaxLen) \cup LONG_NAMES

\* str.upper(), for the URLs tried
upper_char(c) ==
    IF \E i \in DOMAIN LOWER : LOWER[i] = c
    THEN UPPER[CHOOSE i \in DOMAIN LOWER : LOWER[i] = c] ELSE c
py_upper(s) == [i \in 1..Len(s) |-> upper_char(s[i])]
capitalize(s) == IF s = <<>> THEN s ELSE <<upper_char(s[1])>> \o Tail(s)

\* a URL of every domain of the table in three spellings, URLs that hold two
\* domains, and URLs that hold none
DETECT_URLS ==
    UNION {LET d == platform_map[i][1]
               u == <<"h", "t", "t", "p", "s", ":", "/", "/">> \o d \o <<"/", "v">>
           IN  {u, py_upper(u), <<"w", "w", "w", ".">> \o capitalize(d)} :
           i \in DOMAIN platform_map}
    \cup {<<"h", "t", "t", "p", "s", ":", "/", "/", "x", ".", "c", "o", "m", "/",
            "?", "u", "=", "y", "o", "u", "t", "u", ".", "b", "e">>,
          <<"R", "e", "d", "d", "i", "t", ".", "c", "o", "m", "/", "r", "/",
            "T", "i", "k", "T", "o", "k", ".", "C", "O", "M">>,
          <<"h", "t", "t", "p", "s", ":", "/", "/", "c", "l", "i", "p", "s", ".",
            "t", "w", "i", "t", "c", "h", ".", "t", "v", "/", "a">>,
          <<"d", "r", "o", "p", "b", "o", "x", ".", "c", "o", "m", "/", "f">>,
          <<"h", "t", "t", "p", "s", ":", "/", "/", "e", "x", "a", "m", "p", "l", "e",
            ".", "c", "o", "m", "/", "v", "i", "d", "e", "o">>,
          <<"y", "o", "u", "t", "u", "b", "e">>,
          <<>>}

SanitizeFilename(name) ==
    /\ fnCall' = [fn |-> "sanitize_filename", arg |-> name,
                  out |-> sanitize_filename(LStr(name))]
    /\ UNCHANGED <<cfgVars, pathVars, uqVars, vaultVars, runVars>>

DetectPlatformFromUrl(url) ==
    /\ fnCall' = [fn |-> "detect_platform_from_url", arg |-> url,
                  out |-> detect_platform_from_url(url)]
    /\ UNCHANGED <<cfgVars, pathVars, uqVars, vaultVars, runVars>>

InitFn == CfgIdle /\ PathIdle /\ FnIdle /\ RunIdle /\ UqIdle /\ VaultIdle

NextFn ==
    \/ \E name \in NAMES : SanitizeFilename(name)
    \/ \E url \in DETECT_URLS : DetectPlatformFromUrl(url)

SpecFn == InitFn /\ [][NextFn]_vars

-----------------------------------------------------------------------------
(* get_unique_filename, lines 1036-1055, one step per test of the loop *)

os_path_exists(existing, path) == path \in existing

\* os.path.splitext on POSIX: the extension starts at the last dot of the
\* last component, unless only dots precede it in that component
splitext(p) ==
    LET seps == {i \in 1..Len(p) : p[i] = "/"}
        dots == {i \in 1..Len(p) : p[i] = "."}
        sepIndex == IF seps = {} THEN 0 ELSE CHOOSE i \in seps : \A j \in seps : j <= i
        dotIndex == IF dots = {} THEN 0 ELSE CHOOSE i \in dots : \A j \in dots : j <= i
    IN  IF dotIndex > sepIndex
           /\ \E k \in (sepIndex + 1)..(dotIndex - 1) : p[k] # "."
        THEN [base |-> SubSeq(p, 1, dotIndex - 1), ext |-> SubSeq(p, dotIndex, Len(p))]
        ELSE [base |-> p, ext |-> <<>>]

\* the f-string with the counter one too low
numbered_name_from_zero(base, counter, ext) ==
    base \o <<" ", "(">> \o int_to_str(counter - 1) \o <<")">> \o ext

\* lines 1051 and 1054: f"{base} ({counter}){ext}"
numbered_name(base, counter, ext) ==
    base \o <<" ", "(">> \o int_to_str(counter) \o <<")">> \o ext

\* numbered copies of a.mp4 that may exist
MaxCopies == 3

UNIQUE_NAMES == {<<"a", ".", "m", "p", "4">>, <<".", "e", "n", "v">>, <<"x", ".", "t", "a", "r", ".", "g", "z">>, <<"d", ".", "v", "/", "a">>}

UNIQUE_FILES ==
    UNIQUE_NAMES
    \cup {numbered_name(<<"a">>, n, <<".", "m", "p", "4">>) : n \in 1..MaxCopies}
    \cup {numbered_name(splitext(f).base, 1, splitext(f).ext) :
             f \in {<<".", "e", "n", "v">>, <<"x", ".", "t", "a", "r", ".", "g", "z">>, <<"d", ".", "v", "/", "a">>}}

InitUnique ==
    /\ CfgIdle /\ PathIdle /\ FnIdle /\ RunIdle /\ VaultIdle
    /\ files \in SUBSET UNIQUE_FILES
    /\ uq = NoUnique

\* lines 1046-1051
UniqueStart(filename) ==
    /\ uq.pc \in {"idle", "done"}
    /\ uq' = IF ~os_path_exists(files, filename)
             THEN [NoUnique EXCEPT !.pc = "done", !.filename = filename,
                                   !.result = filename]
             ELSE LET sp == splitext(filename)
                  IN  [pc |-> "loop", filename |-> filename, base |-> sp.base,
                       ext |-> sp.ext, counter |-> 1,
                       new_filename |-> numbered_name(sp.base, 1, sp.ext),
                       result |-> <<>>]
    /\ UNCHANGED <<files, cfgVars, pathVars, fnVars, vaultVars, runVars>>

\* line 1052 true, lines 1053-1054
UniqueNext ==
    /\ uq.pc = "loop"
    /\ os_path_exists(files, uq.new_filename)
    /\ uq' = [uq EXCEPT !.counter = uq.counter + 1,
                        !.new_filename = numbered_name(uq.base, uq.counter + 1, uq.ext)]
    /\ UNCHANGED <<files, cfgVars, pathVars, fnVars, vaultVars, runVars>>

\* line 1052 false, line 1055
UniqueReturn ==
    /\ uq.pc = "loop"
    /\ ~os_path_exists(files, uq.new_filename)
    /\ uq' = [uq EXCEPT !.pc = "done", !.result = uq.new_filename]
    /\ UNCHANGED <<files, cfgVars, pathVars, fnVars, vaultVars, runVars>>

NextUnique ==
    \/ \E filename \in UNIQUE_NAMES : UniqueStart(filename)
    \/ UniqueNext
    \/ UniqueReturn

\* a call that has started runs on: the interpreter keeps executing the loop
SpecUnique ==
    InitUnique /\ [][NextUnique]_vars /\ WF_vars(UniqueNext) /\ WF_vars(UniqueReturn)

-----------------------------------------------------------------------------
(* The credential vault, lines 510-609                                     *)
(* A character outside ASCII is written by its code point: "U+00E9" is a   *)
(* two-byte character, "U+DC80" a lone surrogate, which a str can hold and *)
(* UTF-8 cannot encode.  Bytes outside ASCII are written "0xC3".           *)

\* str.encode(): UTF-8
utf8_bytes(c) == IF c = "U+00E9" THEN <<"0xC3", "0xA9">> ELSE <<c>>
encodable(s) == \A i \in 1..Len(s) : s[i] # "U+DC80"
RECURSIVE str_encode(_)
str_encode(s) == IF s = <<>> THEN <<>> ELSE utf8_bytes(Head(s)) \o str_encode(Tail(s))

\* bytes.decode(): [ok, s]; ok is false where UnicodeDecodeError is raised
RECURSIVE bytes_decode(_)
bytes_decode(b) ==
    IF b = <<>> THEN [ok |-> TRUE, s |-> <<>>]
    ELSE IF Head(b) = "0xC3"
    THEN IF Len(b) >= 2 /\ b[2] = "0xA9"
         THEN LET r == bytes_decode(SubSeq(b, 3, Len(b)))
              IN  [ok |-> r.ok, s |-> <<"U+00E9">> \o r.s]
         ELSE [ok |-> FALSE, s |-> <<>>]
    ELSE IF Head(b) \in {"0xA9", "0xFF"} THEN [ok |-> FALSE, s |-> <<>>]
    ELSE LET r == bytes_decode(Tail(b))
         IN  [ok |-> r.ok, s |-> <<Head(b)>> \o r.s]

\* how Path.write_bytes / Path.write_text can end: as WRITE_OUTCOMES
\* the key file after write_bytes(key) (line 517) and os.chmod (line 518)
written_key(kf, id, w) ==
    CASE w = "ok" -> [kind |-> "key", id |-> id, mode |-> "0600"]
      [] w = "denied" -> kf
      [] OTHER -> [kind |-> "garbage", id |-> 0,
                   mode |-> IF kf.kind = "absent" THEN "0644" ELSE kf.mode]

\* a variant that makes a new key on every call
_get_encryption_key_regenerate(kf, made, w) ==
    [exc |-> IF w = "ok" THEN "" ELSE "OSError",
     valid |-> TRUE, key |-> made + 1, kf |-> written_key(kf, made + 1, w),
     made |-> made + 1]

\* lines 510-519: [exc, valid, key, kf, made]; valid = the bytes returned are
\* a Fernet key, key = which key
_get_encryption_key(kf, made, w) ==
    IF kf.kind # "absent"
    THEN [exc |-> "", valid |-> kf.kind = "key", key |-> kf.id, kf |-> kf, made |-> made]
    ELSE [exc |-> IF w = "ok" THEN "" ELSE "OSError",
          valid |-> TRUE, key |-> made + 1, kf |-> written_key(kf, made + 1, w),
          made |-> made + 1]

\* Fernet(key).decrypt(token) with the test of the key left out
fernet_decrypt_any_key(key, c) ==
    IF c.t = "fernet" /\ c.intact
    THEN [ok |-> TRUE, data |-> c.data] ELSE [ok |-> FALSE, data |-> <<>>]

\* Fernet(key).decrypt(token): the data if the token was made with this key
\* and is unmodified, InvalidToken otherwise
fernet_decrypt(key, c) ==
    IF c.t = "fernet" /\ c.intact /\ c.key = key
    THEN [ok |-> TRUE, data |-> c.data] ELSE [ok |-> FALSE, data |-> <<>>]

\* Fernet(key).encrypt(data)
fernet_encrypt(key, data) == CText("fernet", key, data, TRUE)

\* base64.urlsafe_b64encode(token).decode()
b64encode(c) == [c EXCEPT !.t = "b64"]

\* base64.urlsafe_b64decode(text.encode()): [exc, c]; the token for what
\* b64encode made, bytes that are no token for other base64 text,
\* binascii.Error for text that is no base64, AttributeError for a non-string
b64decode(c) ==
    CASE c.t = "b64" -> [exc |-> "", c |-> [c EXCEPT !.t = "fernet"]]
      [] c.t \in {"fernet", "empty"} -> [exc |-> "", c |-> CText("bytes", 0, <<>>, FALSE)]
      [] c.t = "garbage" -> [exc |-> "binascii.Error", c |-> NoCipher]
      [] OTHER -> [exc |-> "AttributeError", c |-> NoCipher]

\* lines 522-527: [exc, out, kf, made]
_encrypt_credential(kf, made, credential, w) ==
    once(_get_encryption_key(kf, made, w), LAMBDA k :
        CASE k.exc # "" -> [exc |-> k.exc, out |-> NoCipher, kf |-> k.kf, made |-> k.made]
          [] ~k.valid -> [exc |-> "ValueError", out |-> NoCipher, kf |-> k.kf, made |-> k.made]
          [] ~encodable(credential) ->
                [exc |-> "UnicodeEncodeError", out |-> NoCipher, kf |-> k.kf, made |-> k.made]
          [] OTHER ->
                [exc |-> "", out |-> b64encode(fernet_encrypt(k.key, str_encode(credential))),
                 kf |-> k.kf, made |-> k.made])

\* lines 530-538 without the try block: [exc, out, kf, made]
_decrypt_credential_unguarded(kf, made, encrypted_credential, w) ==
    once(_get_encryption_key(kf, made, w), LAMBDA k :
    once(b64decode(encrypted_credential), LAMBDA d :
    once(fernet_decrypt(k.key, d.c), LAMBDA m :
    once(bytes_decode(m.data), LAMBDA t :
        [kf |-> k.kf, made |-> k.made,
         exc |-> CASE k.exc # "" -> k.exc
                   [] ~k.valid -> "ValueError"
                   [] d.exc # "" -> d.exc
                   [] ~m.ok -> "InvalidToken"
                   [] ~t.ok -> "UnicodeDecodeError"
                   [] OTHER -> "",
         out |-> IF k.exc = "" /\ k.valid /\ d.exc = "" /\ m.ok /\ t.ok
                 THEN t.s ELSE <<>>]))))

\* lines 530-538: every exception gives ""
_decrypt_credential(kf, made, encrypted_credential, w) ==
    once(_decrypt_credential_unguarded(kf, made, encrypted_credential, w), LAMBDA r :
        [r EXCEPT !.exc = "", !.out = IF r.exc = "" THEN r.out ELSE <<>>])

\* the credentials file after write_text(json.dumps(credentials)) (line 586)
\* and os.chmod (line 587)
written_cred(cf, pw, w) ==
    CASE w = "ok" -> [kind |-> "json", top |-> "dict", pw |-> pw, mode |-> "0600"]
      [] w = "denied" -> cf
      [] OTHER -> [kind |-> "garbage", top |-> "", pw |-> NoCipher,
                   mode |-> IF cf.kind = "absent" THEN "0644" ELSE cf.mode]

\* str.isdigit()
isdigit(s) == s # <<>> /\ \A i \in 1..Len(s) : is_digit(s[i])

\* the dict config["authentication"] denotes: [dict, a]
auth_dict(doc, dc) ==
    LET v == py_get(doc, "authentication", JDict(NoAuth))
    IN  CASE v.t = "alias" -> [dict |-> TRUE, a |-> dc["authentication"].a]
          [] v.t = "dict" -> [dict |-> TRUE, a |-> v.a]
          [] OTHER -> [dict |-> FALSE, a |-> NoAuth]

\* line 574: config["authentication"]["instagram_username"] = username; the
\* shared default dict is changed when config holds a reference to it
set_username(doc, dc, username) ==
    LET v == doc["authentication"]
    IN  CASE v.t = "alias" ->
                [exc |-> "", doc |-> doc,
                 dc |-> [dc EXCEPT !["authentication"] =
                            JDict([dc["authentication"].a EXCEPT
                                      !["instagram_username"] = LStr(username)])]]
          [] v.t = "dict" ->
                [exc |-> "", dc |-> dc,
                 doc |-> py_set(doc, "authentication",
                                JDict([v.a EXCEPT !["instagram_username"] = LStr(username)]))]
          [] OTHER -> [exc |-> "TypeError", doc |-> doc, dc |-> dc]

\* lines 541-591: [ret, exc, username, cfg, dc, kf, cf, made]; ret is "True",
\* "False" or "raise"
setup_instagram_login(cfg, dc, kf, cf, made, typed, confirm, password, wcfg, wkey, wcred) ==
    LET stripped == py_strip(typed, WHITESPACE)
        username == IF stripped # <<>> /\ Head(stripped) = "@" THEN Tail(stripped)
                    ELSE stripped
        res(rv, exc, cfg2, dc2, kf2, cf2, made2) ==
            [ret |-> rv, exc |-> exc, username |-> username, cfg |-> cfg2,
             dc |-> dc2, kf |-> kf2, cf |-> cf2, made |-> made2]
    IN  IF \/ stripped = <<>>
           \/ isdigit(username) /\ (confirm = <<>> \/ lower_char(Head(confirm)) # "y")
           \/ password = <<>>
        THEN res("False", "", cfg, dc, kf, cf, made)
        ELSE once(load_config(cfg, dc, wcfg), LAMBDA lc :
             IF lc.st = "raise" THEN res("raise", lc.exc, lc.file, dc, kf, cf, made)
             ELSE once(set_username(lc.doc, dc, username), LAMBDA su :
                  IF su.exc # "" THEN res("raise", su.exc, lc.file, dc, kf, cf, made)
                  ELSE once(_encrypt_credential(kf, made, password, wkey), LAMBDA e :
                       CASE e.exc # "" ->
                              res("raise", e.exc, lc.file, su.dc, e.kf, cf, e.made)
                         [] cf.kind = "json" /\ cf.top # "dict" ->
                              res("raise", "TypeError", lc.file, su.dc, e.kf, cf, e.made)
                         [] wcred # "ok" ->
                              res("raise", "OSError", lc.file, su.dc, e.kf,
                                  written_cred(cf, e.out, wcred), e.made)
                         [] OTHER ->
                              res("True", "", _save_config(lc.file, su.doc, su.dc, wcfg),
                                  su.dc, e.kf, written_cred(cf, e.out, wcred), e.made))))

\* lines 594-609: [st, exc, username, password, cfg, kf, made]
get_instagram_credentials(cfg, dc, kf, cf, made, wcfg, wkey) ==
    once(load_config(cfg, dc, wcfg), LAMBDA lc :
    once(auth_dict(lc.doc, dc), LAMBDA auth :
        LET username == IF auth.a["instagram_username"].t = "missing" THEN LStr(<<>>)
                        ELSE auth.a["instagram_username"]
            encrypted_password == IF cf.pw.t = "missing" THEN CText("empty", 0, <<>>, FALSE)
                                  ELSE cf.pw
            res(st, exc, u, pw, kf2, made2) ==
                [st |-> st, exc |-> exc, username |-> u, password |-> pw,
                 cfg |-> lc.file, kf |-> kf2, made |-> made2]
        IN  CASE lc.st = "raise" -> res("raise", lc.exc, LStr(<<>>), <<>>, kf, made)
              [] ~auth.dict -> res("raise", "AttributeError", LStr(<<>>), <<>>, kf, made)
              [] cf.kind = "absent" \/ ~py_truth(username) ->
                    res("ok", "", LStr(<<>>), <<>>, kf, made)
              [] cf.kind # "json" \/ cf.top # "dict" ->
                    res("ok", "", LStr(<<>>), <<>>, kf, made)
              [] OTHER ->
                    once(_decrypt_credential(kf, made, encrypted_password, wkey), LAMBDA d :
                         res("ok", "", username, d.out, d.kf, d.made))))

\* line 2127
browsers ==
    << <<"c", "h", "r", "o", "m", "e">>, <<"f", "i", "r", "e", "f", "o", "x">>,
       <<"s", "a", "f", "a", "r", "i">>, <<"e", "d", "g", "e">>,
       <<"o", "p", "e", "r", "a">> >>

\* a variant that stores a new authentication mapping holding the browser only
set_cookie_browser_alone(doc, dc, selected_browser) ==
    [exc |-> "", dc |-> dc,
     doc |-> py_set(doc, "authentication",
                    JDict([NoAuth EXCEPT !["cookie_browser"] = LStr(selected_browser)]))]

\* line 2140: config["authentication"]["cookie_browser"] = selected_browser;
\* as at line 574 the shared default dict is changed when config refers to it
set_cookie_browser(doc, dc, selected_browser) ==
    LET v == doc["authentication"]
    IN  CASE v.t = "alias" ->
                [exc |-> "", doc |-> doc,
                 dc |-> [dc EXCEPT !["authentication"] =
                            JDict([dc["authentication"].a EXCEPT
                                      !["cookie_browser"] = LStr(selected_browser)])]]
          [] v.t = "dict" ->
                [exc |-> "", dc |-> dc,
                 doc |-> py_set(doc, "authentication",
                                JDict([v.a EXCEPT !["cookie_browser"] = LStr(selected_browser)]))]
          [] OTHER -> [exc |-> "TypeError", doc |-> doc, dc |-> dc]

\* the exceptions of the model that "except ValueError" catches
VALUE_ERRORS == {"ValueError", "JSONDecodeError", "UnicodeDecodeError", "UnicodeEncodeError"}

\* lines 2122-2147: [st, exc, cfg, dc]; typed is the text entered at the prompt
configure_browser_cookies(cfg, dc, typed, w) ==
    LET res(st, exc, cfg2, dc2) == [st |-> st, exc |-> exc, cfg |-> cfg2, dc |-> dc2]
        caught(exc, cfg2, dc2) ==
            IF exc \in VALUE_ERRORS THEN res("ok", "", cfg2, dc2)
            ELSE res("raise", exc, cfg2, dc2)
    IN  once(py_int(LStr(typed)), LAMBDA choice :
        IF choice.exc # "" THEN caught(choice.exc, cfg, dc)
        ELSE IF ~(1 <= choice.n /\ choice.n <= Len(browsers)) THEN res("ok", "", cfg, dc)
        ELSE once(load_config(cfg, dc, w), LAMBDA lc :
             IF lc.st = "raise" THEN caught(lc.exc, lc.file, dc)
             ELSE once(set_cookie_browser(lc.doc, dc, browsers[choice.n]), LAMBDA sb :
                  IF sb.exc # "" THEN caught(sb.exc, lc.file, dc)
                  ELSE res("ok", "", _save_config(lc.file, sb.doc, sb.dc, w), sb.dc))))

\* lines 621-624: [st, exc, ret, cfg, kf, made]
is_instagram_authenticated(cfg, dc, kf, cf, made, wcfg, wkey) ==
    once(get_instagram_credentials(cfg, dc, kf, cf, made, wcfg, wkey), LAMBDA c :
        [st |-> c.st, exc |-> c.exc,
         ret |-> c.st = "ok" /\ py_truth(c.username) /\ c.password # <<>>,
         cfg |-> c.cfg, kf |-> c.kf, made |-> c.made])

\* lines 627-666, without a session file: [login, cfg, kf, made]; login =
\* loader.login(username, password) is called
create_authenticated_instaloader(cfg, dc, kf, cf, made, wcfg, wkey) ==
    once(load_config(cfg, dc, wcfg), LAMBDA sd :
    once(get_instagram_credentials(sd.file, dc, kf, cf, made, wcfg, wkey), LAMBDA c :
        [login |-> sd.st = "ok" /\ c.st = "ok" /\ py_truth(c.username) /\ c.password # <<>>,
         cfg |-> c.cfg, kf |-> c.kf, made |-> c.made]))

\* lines 1629-1647: [st, exc, auth, login, cfg, kf, made]; the guard of line
\* 1631 is outside the try, what follows it is inside and reads the
\* credentials and the configuration again
download_instagram_saved_posts(cfg, dc, kf, cf, made, wcfg, wkey) ==
    once(is_instagram_authenticated(cfg, dc, kf, cf, made, wcfg, wkey), LAMBDA a :
        IF a.st # "ok" \/ ~a.ret
        THEN [st |-> a.st, exc |-> a.exc, auth |-> a.ret, login |-> FALSE,
              cfg |-> a.cfg, kf |-> a.kf, made |-> a.made]
        ELSE once(create_authenticated_instaloader(a.cfg, dc, a.kf, cf, a.made, wcfg, wkey),
                  LAMBDA l :
             once(get_instagram_credentials(l.cfg, dc, l.kf, cf, l.made, wcfg, wkey),
                  LAMBDA u :
             once(load_config(u.cfg, dc, wcfg), LAMBDA lc :
                  [st |-> "ok", exc |-> "", auth |-> TRUE, login |-> l.login,
                   cfg |-> lc.file, kf |-> u.kf, made |-> u.made]))))

-----------------------------------------------------------------------------
(* The credential vault used by one process, one call at a time *)

\* keys generated in a run
MaxKeys == 1

\* a key file and ciphertexts left by earlier runs: key 0 is an earlier
\* key, key -1 a key that is no longer on disk
KEY_FILES ==
    {AbsentKey,
     [kind |-> "key", id |-> 0, mode |-> "0600"],
     [kind |-> "key", id |-> 0, mode |-> "0644"],
     [kind |-> "garbage", id |-> 0, mode |-> "0600"]}

SECRETS == {<<>>, <<"p", "w">>, <<"p", "U+00E9">>, <<"U+DC80">>}

stored_token(key, plain) == CText("b64", key, str_encode(plain), TRUE)

CRED_FILES ==
    {AbsentCred,
     [kind |-> "json", top |-> "dict", pw |-> stored_token(0, <<"o", "l", "d">>),
      mode |-> "0600"],
     [kind |-> "json", top |-> "dict", pw |-> stored_token(0 - 1, <<"o", "l", "d">>),
      mode |-> "0600"],
     [kind |-> "json", top |-> "list", pw |-> NoCipher, mode |-> "0600"],
     [kind |-> "garbage", top |-> "", pw |-> NoCipher, mode |-> "0600"]}

with_username(u) ==
    py_set(DEFAULT_CONFIG_LITERAL, "authentication",
           JDict([DEFAULT_AUTH EXCEPT !["instagram_username"] = LStr(u)]))

VAULT_CFG_FILES ==
    {AbsentFile,
     JsonFile("dict", DEFAULT_CONFIG_LITERAL),
     JsonFile("dict", with_username(<<"b", "o", "b">>)),
     JsonFile("dict", py_set(DEFAULT_CONFIG_LITERAL, "authentication", JStr(<<"x">>)))}

\* what a caller may hand to _decrypt_credential
\* tokens made with key k, intact, tampered with, holding bytes that are no
\* UTF-8, or not encoded a second time; a token made with another key; text
\* that is no token
CIPHERTEXTS(k) ==
    {stored_token(k, <<"p", "w">>), stored_token(k, <<>>),
     stored_token(0 - 1, <<"p", "w">>),
     CText("b64", k, <<"p", "w">>, FALSE),
     CText("b64", k, <<"0xFF">>, TRUE),
     CText("fernet", k, <<"p", "w">>, TRUE)}
    \cup {CText(t, 0, <<>>, FALSE) : t \in {"garbage", "empty", "nonstr"}}

\* what the user types at the three prompts: [typed, confirm, password];
\* the first three end the setup before anything is read or written
ABANDONED_ENTRIES ==
    {[typed |-> <<" ">>, confirm |-> <<>>, password |-> <<"p", "w">>],
     [typed |-> <<"1", "2">>, confirm |-> <<"n">>, password |-> <<"p", "w">>],
     [typed |-> <<"a", "l">>, confirm |-> <<>>, password |-> <<>>]}
ENTRIES ==
    {[typed |-> <<" ", "@", "a", "l">>, confirm |-> <<>>, password |-> <<"p", "w">>],
     [typed |-> <<"@">>, confirm |-> <<>>, password |-> <<"p", "w">>],
     [typed |-> <<"1", "2">>, confirm |-> <<"Y">>, password |-> <<"p", "w">>],
     [typed |-> <<"a", "l">>, confirm |-> <<>>, password |-> <<"U+DC80">>]}

\* the outcomes of the writes of one setup: [cfg, key, cred]; at most one of
\* config.json, the key file and the credentials file fails to be written
SETUP_WRITES ==
    {[cfg |-> "ok", key |-> "ok", cred |-> "ok"]}
    \cup {[cfg |-> w, key |-> "ok", cred |-> "ok"] : w \in WRITE_OUTCOMES}
    \cup {[cfg |-> "ok", key |-> w, cred |-> "ok"] : w \in WRITE_OUTCOMES}
    \cup {[cfg |-> "ok", key |-> "ok", cred |-> w] : w \in WRITE_OUTCOMES}

\* the outcomes of a write that is only made when the file is absent
outcomes_if_absent(file) == IF file.kind = "absent" THEN WRITE_OUTCOMES ELSE {"ok"}

InitVault ==
    /\ cfgFile \in VAULT_CFG_FILES
    /\ DEFAULT_CONFIG = DEFAULT_CONFIG_LITERAL
    /\ ret = NoCall
    /\ prev = NoCall
    /\ PathIdle /\ FnIdle /\ RunIdle /\ UqIdle
    /\ keyFile \in KEY_FILES
    /\ credFile \in CRED_FILES
    /\ keysMade = 0
    /\ vaultCall = NoVaultCall
    /\ procs = [p \in PROCS |-> NoProc]

\* a call that may generate a key is made while keys are left
may_generate == keyFile.kind # "absent" \/ keysMade < MaxKeys

vault_frame == UNCHANGED <<ret, prev, pathVars, fnVars, uqVars, procs, runVars>>

GetEncryptionKey(w) ==
    \E k \in {_get_encryption_key(keyFile, keysMade, w)} :
        /\ may_generate
        /\ keyFile' = k.kf
        /\ keysMade' = k.made
        /\ vaultCall' = [NoVaultCall EXCEPT !.op = "get_key",
                            !.st = IF k.exc = "" THEN "ok" ELSE "raise", !.exc = k.exc,
                            !.outc = CText(IF k.valid THEN "key" ELSE "garbage",
                                           k.key, <<>>, k.valid)]
        /\ UNCHANGED <<cfgFile, DEFAULT_CONFIG, credFile>>
        /\ vault_frame

EncryptCredential(s, w) ==
    \E e \in {_encrypt_credential(keyFile, keysMade, s, w)} :
        /\ may_generate
        /\ keyFile' = e.kf
        /\ keysMade' = e.made
        /\ vaultCall' = [NoVaultCall EXCEPT !.op = "encrypt", !.plain = s,
                            !.st = IF e.exc = "" THEN "ok" ELSE "raise", !.exc = e.exc,
                            !.outc = e.out]
        /\ UNCHANGED <<cfgFile, DEFAULT_CONFIG, credFile>>
        /\ vault_frame

DecryptCredential(c, w) ==
    \E d \in {_decrypt_credential(keyFile, keysMade, c, w)} :
        /\ may_generate
        /\ keyFile' = d.kf
        /\ keysMade' = d.made
        /\ vaultCall' = [NoVaultCall EXCEPT !.op = "decrypt", !.cipher = c,
                            !.st = IF d.exc = "" THEN "ok" ELSE "raise", !.exc = d.exc,
                            !.out = d.out]
        /\ UNCHANGED <<cfgFile, DEFAULT_CONFIG, credFile>>
        /\ vault_frame

\* _decrypt_credential(_encrypt_credential(s))
RoundTrip(s, w) ==
    \E e \in {_encrypt_credential(keyFile, keysMade, s, w)} :
    \E d \in {_decrypt_credential(e.kf, e.made, e.out, w)} :
        /\ may_generate
        /\ keyFile' = IF e.exc = "" THEN d.kf ELSE e.kf
        /\ keysMade' = IF e.exc = "" THEN d.made ELSE e.made
        /\ vaultCall' = [NoVaultCall EXCEPT !.op = "round_trip", !.plain = s,
                            !.st = IF e.exc = "" THEN "ok" ELSE "raise", !.exc = e.exc,
                            !.outc = e.out,
                            !.out = IF e.exc = "" THEN d.out ELSE <<>>]
        /\ UNCHANGED <<cfgFile, DEFAULT_CONFIG, credFile>>
        /\ vault_frame

SetupInstagramLogin(typed, confirm, password, wcfg, wkey, wcred) ==
    \E r \in {setup_instagram_login(cfgFile, DEFAULT_CONFIG, keyFile, credFile, keysMade,
                                   typed, confirm, password, wcfg, wkey, wcred)} :
        /\ may_generate
        /\ cfgFile' = r.cfg
        /\ DEFAULT_CONFIG' = r.dc
        /\ keyFile' = r.kf
        /\ credFile' = r.cf
        /\ keysMade' = r.made
        /\ vaultCall' = [NoVaultCall EXCEPT !.op = "setup", !.plain = password,
                            !.username = LStr(r.username),
                            !.st = IF r.ret = "raise" THEN "raise" ELSE "ok",
                            !.exc = r.exc, !.ret = (r.ret = "True")]
        /\ vault_frame

GetInstagramCredentials(wcfg, wkey) ==
    \E r \in {get_instagram_credentials(cfgFile, DEFAULT_CONFIG, keyFile, credFile,
                                       keysMade, wcfg, wkey)} :
        /\ may_generate
        /\ cfgFile' = r.cfg
        /\ keyFile' = r.kf
        /\ keysMade' = r.made
        /\ vaultCall' = [NoVaultCall EXCEPT !.op = "read", !.username = r.username,
                            !.st = r.st, !.exc = r.exc, !.out = r.password]
        /\ UNCHANGED <<DEFAULT_CONFIG, credFile>>
        /\ vault_frame

IsInstagramAuthenticated(wcfg, wkey) ==
    \E r \in {is_instagram_authenticated(cfgFile, DEFAULT_CONFIG, keyFile, credFile,
                                        keysMade, wcfg, wkey)} :
        /\ may_generate
        /\ cfgFile' = r.cfg
        /\ keyFile' = r.kf
        /\ keysMade' = r.made
        /\ vaultCall' = [NoVaultCall EXCEPT !.op = "is_authenticated", !.st = r.st,
                            !.exc = r.exc, !.ret = r.ret]
        /\ UNCHANGED <<DEFAULT_CONFIG, credFile>>
        /\ vault_frame

DownloadInstagramSavedPosts(wcfg, wkey) ==
    \E r \in {download_instagram_saved_posts(cfgFile, DEFAULT_CONFIG, keyFile, credFile,
                                            keysMade, wcfg, wkey)} :
        /\ may_generate
        /\ cfgFile' = r.cfg
        /\ keyFile' = r.kf
        /\ keysMade' = r.made
        /\ vaultCall' = [NoVaultCall EXCEPT !.op = "saved_posts", !.st = r.st,
                            !.exc = r.exc, !.ret = r.auth, !.login = r.login]
        /\ UNCHANGED <<DEFAULT_CONFIG, credFile>>
        /\ vault_frame

NextVault ==
    \/ \E w \in outcomes_if_absent(keyFile) : GetEncryptionKey(w)
    \/ \E s \in SECRETS, w \in outcomes_if_absent(keyFile) : EncryptCredential(s, w)
    \/ \E c \in CIPHERTEXTS(keyFile.id) \cup {credFile.pw},
          w \in outcomes_if_absent(keyFile) :
          DecryptCredential(c, w)
    \/ \E s \in SECRETS, w \in outcomes_if_absent(keyFile) : RoundTrip(s, w)
    \/ \E e \in ABANDONED_ENTRIES :
          SetupInstagramLogin(e.typed, e.confirm, e.password, "ok", "ok", "ok")
    \/ \E e \in ENTRIES, w \in SETUP_WRITES :
          SetupInstagramLogin(e.typed, e.confirm, e.password, w.cfg, w.key, w.cred)
    \/ \E wcfg \in WRITE_OUTCOMES, wkey \in outcomes_if_absent(keyFile) :
          GetInstagramCredentials(wcfg, wkey)
    \/ \E wcfg \in WRITE_OUTCOMES, wkey \in outcomes_if_absent(keyFile) :
          IsInstagramAuthenticated(wcfg, wkey)
    \/ \E wcfg \in WRITE_OUTCOMES, wkey \in outcomes_if_absent(keyFile) :
          DownloadInstagramSavedPosts(wcfg, wkey)

SpecVault == InitVault /\ [][NextVault]_vars

-----------------------------------------------------------------------------
(* get_organized_download_path called by several threads at once, as the   *)
(* workers of the batch pool do; os.makedirs runs one system call per step *)

\* calls each caller makes
MaxOrganizeCalls == 2

\* os.path.split(name)[0]: what precedes the last slash, "" when there is none
path_head(name) ==
    LET cut == {i \in 1..Len(name) : name[i] = "/"}
    IN  IF cut = {} THEN <<>>
        ELSE rstrip(SubSeq(name, 1, CHOOSE i \in cut : \A j \in cut : j <= i), {"/"})

\* a variant: os.makedirs(organized_path) without exist_ok
exist_ok_false == FALSE

\* line 1180: os.makedirs(organized_path, exist_ok=True)
exist_ok == TRUE

\* the (url, uploader_override) pairs of the calls
ORGANIZE_ARGS ==
    {[url |-> <<"i", "n", "s", "t", "a", "g", "r", "a", "m", ".", "c", "o", "m", "/", "p", "/", "A">>,
      uploader |-> LStr(<<"a", "l">>)],
     [url |-> <<"y", "o", "u", "t", "u", ".", "b", "e", "/", "x">>, uploader |-> LNull]}

InitOrganize ==
    /\ \E f \in {AbsentFile,
                 JsonFile("dict", py_set(DEFAULT_CONFIG_LITERAL, "organize_downloads",
                                         JBool(FALSE)))} :
          LET r == load_config(f, DEFAULT_CONFIG_LITERAL, "ok")
              dd == py_get(r.doc, "download_directory", JStr(<<"m", "e", "d", "i", "a">>)).s
          IN  /\ cfgFile = r.file
              /\ ret = outcome(r)
              /\ config = r.doc
              /\ download_directory = dd
              /\ dirs = makedirs({}, dd)
    /\ DEFAULT_CONFIG = DEFAULT_CONFIG_LITERAL
    /\ prev = NoCall
    /\ pathCall = NoPathCall
    /\ nCalls = 0
    /\ FnIdle /\ UqIdle /\ VaultIdle
    /\ callers = [c \in WORKERS |-> NoCaller]
    /\ video = NoVideo /\ history = <<>> /\ clock = 0
    /\ dl = [t \in THREADS |-> NoThread]
    /\ batch = NoBatch

organize_frame ==
    UNCHANGED <<cfgVars, config, download_directory, pathCall, nCalls, fnVars, uqVars,
                vaultVars, video, history, clock, dl, batch>>

\* lines 1161-1177: the caller c computes the path; the path itself does not
\* depend on the directories that exist
OrganizeCall(c, url, uploader_override) ==
    /\ callers[c].pc \in {"idle", "returned"}
    /\ callers[c].n < MaxOrganizeCalls
    /\ \E r \in {get_organized_download_path(config, download_directory, {}, url, NoInfo,
                                             uploader_override)} :
          callers' = [callers EXCEPT ![c] =
              [NoCaller EXCEPT !.url = url, !.uploader = uploader_override,
                               !.path = r.path, !.n = callers[c].n + 1,
                               !.pc = IF r.path = download_directory THEN "returned"
                                      ELSE "makedirs",
                               !.stack = IF r.path = download_directory THEN <<>>
                                         ELSE <<r.path>>]]
    /\ UNCHANGED dirs
    /\ organize_frame

\* os.makedirs: "if head and tail and not path.exists(head)", then the
\* recursive call for head
MakedirsTest(c) ==
    /\ callers[c].pc = "makedirs"
    /\ LET head == path_head(Head(callers[c].stack))
       IN  callers' = [callers EXCEPT ![c] =
               IF head # <<>> /\ head \notin dirs
               THEN [@ EXCEPT !.stack = <<head>> \o @]
               ELSE [@ EXCEPT !.pc = "mkdir"]]
    /\ UNCHANGED dirs
    /\ organize_frame

\* os.makedirs: mkdir(name); a FileExistsError of the recursive call is
\* passed over, that of the outermost call only with exist_ok.  clash: a
\* directory that was missing at the test exists at the mkdir
Mkdir(c) ==
    /\ callers[c].pc = "mkdir"
    /\ LET name == Head(callers[c].stack)
           outermost == Len(callers[c].stack) = 1
           exists == name \in dirs
       IN  /\ dirs' = dirs \cup {name}
           /\ callers' = [callers EXCEPT ![c] =
                  [@ EXCEPT !.stack = Tail(@),
                            !.clash = @ \/ (exists /\ ~outermost),
                            !.st = IF exists /\ outermost /\ ~exist_ok THEN "raise" ELSE "",
                            !.pc = IF outermost THEN "returned" ELSE "mkdir"]]
    /\ organize_frame

NextOrganize ==
    \/ \E c \in WORKERS, a \in ORGANIZE_ARGS : OrganizeCall(c, a.url, a.uploader)
    \/ \E c \in WORKERS : MakedirsTest(c)
    \/ \E c \in WORKERS : Mkdir(c)

SpecOrganize == InitOrganize /\ [][NextOrganize]_vars

-----------------------------------------------------------------------------
(* Video downloads made one after another into the same directory: the     *)
(* output template of _prepare_download_options and the file yt-dlp leaves *)

\* downloads in a run
MaxVideos == 3

\* get_unique_filename, lines 1036-1055, as a function of the files that exist
get_unique_filename(existing, filename) ==
    IF ~os_path_exists(existing, filename) THEN filename
    ELSE LET sp == splitext(filename)
             free == {n \in 1..(Cardinality(existing) + 1) :
                         ~os_path_exists(existing, numbered_name(sp.base, n, sp.ext))}
         IN  numbered_name(sp.base, CHOOSE n \in free : \A m \in free : n <= m, sp.ext)

\* the field %(ext)s of an output template, kept as one element
EXT_FIELD == "%(ext)s"

\* lines 1351-1416: [format, outtmpl, ext]; ext is the extension of the
\* file the download leaves (merge_output_format, preferredcodec)
_prepare_download_options(existing, organized_path, title, choice) ==
    LET filename_base == get_unique_filename(existing, os_path_join(organized_path, title))
    IN  IF choice = <<"m", "p", "3">>
        THEN [format |-> <<"b", "e", "s", "t", "a", "u", "d", "i", "o", "/", "b", "e", "s", "t">>,
              outtmpl |-> os_path_join(organized_path, title \o <<".", EXT_FIELD>>),
              ext |-> <<"m", "p", "3">>]
        ELSE [format |-> choice,
              outtmpl |-> filename_base \o <<".", EXT_FIELD>>,
              ext |-> <<"m", "p", "4">>]

\* the name yt-dlp gives the file: the template with its field filled in
RECURSIVE fill_template(_, _)
fill_template(outtmpl, ext) ==
    IF outtmpl = <<>> THEN <<>>
    ELSE (IF Head(outtmpl) = EXT_FIELD THEN ext ELSE <<Head(outtmpl)>>)
         \o fill_template(Tail(outtmpl), ext)

VIDEO_URL == <<"y", "o", "u", "t", "u", ".", "b", "e", "/", "x">>

\* info["title"] of the videos, and the formats chosen
TITLES == {<<"a">>, <<"a", ".", "m", "p", "4">>, <<"v", "1", ".", "0">>}
CHOICES == {<<"m", "p", "3">>, <<"2", "2">>}

InitVideo ==
    /\ LET r == load_config(AbsentFile, DEFAULT_CONFIG_LITERAL, "ok")
           dd == py_get(r.doc, "download_directory", JStr(<<"m", "e", "d", "i", "a">>)).s
       IN  /\ cfgFile = r.file
           /\ ret = outcome(r)
           /\ config = r.doc
           /\ download_directory = dd
           /\ dirs = makedirs({}, dd)
    /\ DEFAULT_CONFIG = DEFAULT_CONFIG_LITERAL
    /\ prev = NoCall
    /\ pathCall = NoPathCall
    /\ nCalls = 0
    /\ FnIdle /\ UqIdle /\ VaultIdle
    /\ callers = [c \in WORKERS |-> NoCaller]
    /\ video = NoVideo /\ history = <<>> /\ clock = 0
    /\ dl = [t \in THREADS |-> NoThread]
    /\ batch = NoBatch

\* lines 1284-1288: the options are prepared and ydl.download leaves the
\* file named by the template (a file of that name is not written twice)
DownloadVideo(title, choice) ==
    /\ video.n < MaxVideos
    /\ \E o \in {get_organized_download_path(config, download_directory, dirs, VIDEO_URL,
                                             NoInfo, LNull)} :
       \E opts \in {_prepare_download_options(files, o.path, title, choice)} :
          /\ dirs' = o.dirs
          /\ video' = [n |-> video.n + 1, title |-> title, choice |-> choice,
                       outtmpl |-> opts.outtmpl,
                       output |-> fill_template(opts.outtmpl, opts.ext),
                       before |-> files]
          /\ files' = files \cup {fill_template(opts.outtmpl, opts.ext)}
    /\ UNCHANGED <<cfgVars, config, download_directory, pathCall, nCalls, fnVars, uq,
                   vaultVars, callers, history, clock, dl, batch>>

NextVideo == \E title \in TITLES, choice \in CHOICES : DownloadVideo(title, choice)

SpecVideo == InitVideo /\ [][NextVideo]_vars

-----------------------------------------------------------------------------
(* The download operations, one step per call that can block, fail or be   *)
(* overtaken by another thread.  events lists what a thread has done in    *)
(* its operation: "check_fail", "check_ok" (check_internet_connection),    *)
(* "extract", "download" (calls of yt-dlp or instaloader), "log"           *)
(* (log_download called) and "append" (a row written)                      *)

\* lines 100-131
SUPPORTED_DOMAINS ==
    << <<"y", "o", "u", "t", "u", "b", "e", ".", "c", "o", "m">>,
       <<"y", "o", "u", "t", "u", ".", "b", "e">>,
       <<"t", "i", "k", "t", "o", "k", ".", "c", "o", "m">>,
       <<"f", "a", "c", "e", "b", "o", "o", "k", ".", "c", "o", "m">>,
       <<"f", "b", ".", "w", "a", "t", "c", "h">>,
       <<"x", ".", "c", "o", "m">>,
       <<"t", "w", "i", "t", "t", "e", "r", ".", "c", "o", "m">>,
       <<"t", "w", "i", "t", "c", "h", ".", "t", "v">>,
       <<"c", "l", "i", "p", "s", ".", "t", "w", "i", "t", "c", "h", ".", "t", "v">>,
       <<"s", "n", "a", "p", "c", "h", "a", "t", ".", "c", "o", "m">>,
       <<"r", "e", "d", "d", "i", "t", ".", "c", "o", "m">>,
       <<"p", "a", "c", "k", "a", "g", "e", "d", "-", "m", "e", "d", "i", "a", ".", "r", "e", "d", "d", ".", "i", "t">>,
       <<"v", "i", "m", "e", "o", ".", "c", "o", "m">>,
       <<"s", "t", "r", "e", "a", "m", "a", "b", "l", "e", ".", "c", "o", "m">>,
       <<"p", "i", "n", "t", "e", "r", "e", "s", "t", ".", "c", "o", "m">>,
       <<"p", "i", "n", ".", "i", "t">>,
       <<"l", "i", "n", "k", "e", "d", "i", "n", ".", "c", "o", "m">>,
       <<"b", "i", "l", "i", "b", "i", "l", "i", ".", "t", "v">>,
       <<"o", "d", "y", "s", "e", "e", ".", "c", "o", "m">>,
       <<"r", "u", "m", "b", "l", "e", ".", "c", "o", "m">>,
       <<"g", "a", "m", "e", "c", "l", "i", "p", "s", ".", "i", "o">>,
       <<"t", "r", "i", "l", "l", "e", "r", ".", "c", "o">>,
       <<"s", "n", "a", "c", "k", "v", "i", "d", "e", "o", ".", "c", "o", "m">>,
       <<"k", "w", "a", "i", ".", "c", "o", "m">>,
       <<"i", "m", "d", "b", ".", "c", "o", "m">>,
       <<"w", "e", "i", "b", "o", ".", "c", "o", "m">>,
       <<"d", "a", "i", "l", "y", "m", "o", "t", "i", "o", "n", ".", "c", "o", "m">>,
       <<"d", "a", "i", ".", "l", "y">>,
       <<"t", "u", "m", "b", "l", "r", ".", "c", "o", "m">>,
       <<"b", "s", "k", "y", ".", "a", "p", "p">> >>

\* line 133
INSTAGRAM_DOMAINS == << <<"i", "n", "s", "t", "a", "g", "r", "a", "m", ".", "c", "o", "m">> >>

\* lines 1058-1069
is_valid_platform_url(url, allowed_domains) ==
    \E i \in 1..Len(allowed_domains) : contains(py_lower(url), allowed_domains[i])

\* lines 397-410: response is the status of the HEAD request, or
\* "exception" when requests.head raises
check_internet_connection(response) == response = "200"

RESPONSES == {"200", "503", "exception"}

\* the offset of the first occurrence of sub in s, -1 when there is none
index_of(s, sub) ==
    LET hits == {i \in 0..(Len(s) - Len(sub)) : \A j \in 1..Len(sub) : s[i + j] = sub[j]}
    IN  IF hits = {} THEN 0 - 1 ELSE CHOOSE i \in hits : \A k \in hits : i <= k

\* url.split(sep)[1].split("/")[0]
split_after(url, sep) ==
    LET i == index_of(url, sep)
        rest == SubSeq(url, i + Len(sep) + 1, Len(url))
        j == index_of(rest, <<"/">>)
    IN  IF j < 0 THEN rest ELSE SubSeq(rest, 1, j)

\* lines 1540-1548
_extract_instagram_shortcode(url) ==
    CASE contains(url, <<"/", "r", "e", "e", "l", "/">>) ->
            LStr(split_after(url, <<"/", "r", "e", "e", "l", "/">>))
      [] contains(url, <<"/", "p", "/">>) -> LStr(split_after(url, <<"/", "p", "/">>))
      [] contains(url, <<"/", "t", "v", "/">>) -> LStr(split_after(url, <<"/", "t", "v", "/">>))
      [] OTHER -> LNull

\* how opening the history file for appending can end
APPEND_OUTCOMES == {"ok", "denied"}

\* a variant that opens the history file with mode "w"
log_download_rewriting(rows, url, status, now, w) ==
    IF w = "ok" THEN <<[url |-> url, status |-> status, timestamp |-> now]>> ELSE rows

\* lines 877-891: the rows of the history file after the call; an IOError
\* is logged and no row is written
log_download(rows, url, status, now, w) ==
    IF w = "ok" THEN Append(rows, [url |-> url, status |-> status, timestamp |-> now])
    ELSE rows

SUCCESS == <<"S", "u", "c", "c", "e", "s", "s">>
\* f"Failed: {str(e)}"
failed(msg) == <<"F", "a", "i", "l", "e", "d", ":", " ">> \o msg
INVALID_URL_FORMAT == <<"I", "n", "v", "a", "l", "i", "d", " ", "U", "R", "L", " ",
                        "f", "o", "r", "m", "a", "t">>

\* how a call of the library can end: it returns, or raises an exception
\* whose str() is msg
RETURNS == [raised |-> FALSE, msg |-> <<>>]
LIB_OUTCOMES == {RETURNS, [raised |-> TRUE, msg |-> <<"4", "0", "4">>]}

\* failed connectivity checks in one operation
MaxChecks == 1
\* operations the main thread starts in a run
MaxOps == 2

\* line 1614
max_workers_four == 2 + 2
max_workers == 3

\* post.owner_username as the library reports it
OWNER == LStr(<<"a", "l">>)

busy(t) == dl[t].pc \notin {"idle", "done"}
main_free == dl[0].pc \in {"idle", "done"} /\ dl[0].task < MaxOps
count(events, e) == Cardinality({i \in 1..Len(events) : events[i] = e})

\* the thread t ends the task of the pool it was running
finish_task(t, how) ==
    IF t \in POOL /\ dl[t].task \in 1..Len(batch.finished)
    THEN [batch EXCEPT !.finished[dl[t].task] = how] ELSE batch

run_frame ==
    UNCHANGED <<cfgVars, config, download_directory, pathCall, nCalls, fnVars, uqVars,
                vaultVars, callers, video>>

\* lines 1429-1431: download_instagram_post(url) begins
start_instagram(url, task) ==
    [NoThread EXCEPT !.op = "instagram", !.url = url, !.task = task,
                     !.pc = IF is_valid_platform_url(url, INSTAGRAM_DOMAINS)
                            THEN "ensure" ELSE "done"]

DownloadInstagramPost(url) ==
    /\ main_free
    /\ dl' = [dl EXCEPT ![0] = start_instagram(url, dl[0].task + 1)]
    /\ UNCHANGED <<dirs, history, clock, batch>>
    /\ run_frame

\* lines 1264-1267: download_youtube_or_tiktok_video(url) begins
DownloadYoutubeOrTiktokVideo(url) ==
    /\ main_free
    /\ dl' = [dl EXCEPT ![0] =
              [NoThread EXCEPT !.op = "youtube", !.url = url, !.task = dl[0].task + 1,
                               !.pc = IF is_valid_platform_url(url, SUPPORTED_DOMAINS)
                                      THEN "ffmpeg" ELSE "done"]]
    /\ UNCHANGED <<dirs, history, clock, batch>>
    /\ run_frame

\* line 1269, lines 372-391: without ffmpeg the process ends in sys.exit(1)
EnsureFfmpeg(installed) ==
    /\ dl[0].pc = "ffmpeg"
    /\ dl' = [dl EXCEPT ![0].pc = IF installed THEN "ensure" ELSE "exit"]
    /\ UNCHANGED <<dirs, history, clock, batch>>
    /\ run_frame

\* lines 413-418: one test of the while loop of ensure_internet_connection;
\* the loop is left when the check returns True
CheckInternet(t, response) ==
    /\ dl[t].pc = "ensure"
    /\ check_internet_connection(response) \/ count(dl[t].events, "check_fail") < MaxChecks
    /\ dl' = [dl EXCEPT ![t] =
              IF check_internet_connection(response)
              THEN [@ EXCEPT !.events = Append(@, "check_ok"),
                             !.pc = CASE dl[t].op = "instagram" -> "post"
                                      [] dl[t].op = "youtube" -> "extract_info"
                                      [] OTHER -> "read"]
              ELSE [@ EXCEPT !.events = Append(@, "check_fail")]]
    /\ UNCHANGED <<dirs, history, clock, batch>>
    /\ run_frame

\* lines 1435-1446: the shortcode, then Post.from_shortcode
InstagramPost(t, o) ==
    /\ dl[t].pc = "post"
    /\ dl' = [dl EXCEPT ![t] =
              IF ~truthy(_extract_instagram_shortcode(dl[t].url))
              THEN [@ EXCEPT !.status = failed(INVALID_URL_FORMAT), !.pc = "log"]
              ELSE IF o.raised
              THEN [@ EXCEPT !.events = Append(@, "extract"), !.raised = TRUE,
                             !.status = failed(o.msg), !.pc = "log"]
              ELSE [@ EXCEPT !.events = Append(@, "extract"), !.pc = "download_post"]]
    /\ UNCHANGED <<dirs, history, clock, batch>>
    /\ run_frame

\* lines 1448-1462: the organized path, then loader.download_post
DownloadPost(t, o) ==
    /\ dl[t].pc = "download_post"
    /\ dirs' = get_organized_download_path(config, download_directory, dirs, dl[t].url,
                                           NoInfo, OWNER).dirs
    /\ dl' = [dl EXCEPT ![t] =
              [@ EXCEPT !.events = Append(@, "download"), !.raised = o.raised,
                        !.status = IF o.raised THEN failed(o.msg) ELSE SUCCESS,
                        !.pc = "log"]]
    /\ UNCHANGED <<history, clock, batch>>
    /\ run_frame

\* lines 1274-1275: ydl.extract_info
ExtractInfo(o) ==
    /\ dl[0].pc = "extract_info"
    /\ dl' = [dl EXCEPT ![0] =
              IF o.raised
              THEN [@ EXCEPT !.events = Append(@, "extract"), !.raised = TRUE,
                             !.status = failed(o.msg), !.pc = "log"]
              ELSE [@ EXCEPT !.events = Append(@, "extract"), !.pc = "ydl_download"]]
    /\ UNCHANGED <<dirs, history, clock, batch>>
    /\ run_frame

\* lines 1277-1290: the options (with the organized path), ydl.download and
\* the metadata files, whose errors are logged and not raised
YdlDownload(o) ==
    /\ dl[0].pc = "ydl_download"
    /\ dirs' = get_organized_download_path(config, download_directory, dirs, dl[0].url,
                                           NoInfo, LNull).dirs
    /\ dl' = [dl EXCEPT ![0] =
              [@ EXCEPT !.events = Append(@, "download"), !.raised = o.raised,
                        !.status = IF o.raised THEN failed(o.msg) ELSE SUCCESS,
                        !.pc = "log"]]
    /\ UNCHANGED <<history, clock, batch>>
    /\ run_frame

\* lines 1292, 1298, 1441, 1464, 1468: log_download(url, status) ends the
\* operation; a thread of the pool then waits for its next task
LogDownload(t, w) ==
    /\ dl[t].pc = "log"
    /\ history' = log_download(history, dl[t].url, dl[t].status, clock, w)
    /\ clock' = clock + 1
    /\ dl' = [dl EXCEPT ![t] =
              IF t \in POOL THEN NoThread
              ELSE [@ EXCEPT !.events = @ \o (IF w = "ok" THEN <<"log", "append">>
                                                          ELSE <<"log">>),
                             !.pc = "done"]]
    /\ batch' = finish_task(t, IF w = "ok" THEN "logged" ELSE "unlogged")
    /\ UNCHANGED dirs
    /\ run_frame

\* lines 1767-1816: download_youtube_liked_videos()
DownloadYoutubeLikedVideos(o) ==
    /\ main_free
    /\ \E lc \in {load_config(cfgFile, DEFAULT_CONFIG, "ok")} :
          /\ lc.st = "ok"
          /\ cfgFile' = lc.file
          /\ dirs' = IF py_truth(py_get(lc.doc, "organize_downloads", JBool(TRUE)))
                     THEN makedirs(dirs, py_get(lc.doc, "download_directory",
                                                JStr(<<"m", "e", "d", "i", "a">>)).s
                                         \o <<"/", "Y", "o", "u", "T", "u", "b", "e", "/",
                                              "L", "i", "k", "e", "d">>)
                     ELSE dirs
    /\ dl' = [dl EXCEPT ![0] =
              [NoThread EXCEPT !.op = "liked", !.task = dl[0].task + 1,
                               !.events = <<"download">>, !.raised = o.raised,
                               !.pc = "done"]]
    /\ UNCHANGED <<DEFAULT_CONFIG, ret, prev, config, download_directory, pathCall, nCalls,
                   fnVars, uqVars, vaultVars, callers, video, history, clock, batch>>

\* line 1592: batch_download_from_file(file_path) begins
BatchDownloadFromFile(f) ==
    /\ main_free
    /\ batch.pc = "idle"
    /\ dl' = [dl EXCEPT ![0] = [NoThread EXCEPT !.op = "batch", !.pc = "ensure",
                                                !.task = dl[0].task + 1]]
    /\ batch' = [NoBatch EXCEPT !.pc = "called", !.exists = f.exists, !.lines = f.lines]
    /\ UNCHANGED <<dirs, history, clock>>
    /\ run_frame

\* line 1602: [line.strip() for line in file.readlines() if line.strip()]
RECURSIVE read_urls(_)
read_urls(lines) ==
    IF lines = <<>> THEN <<>>
    ELSE (IF py_strip(Head(lines), WHITESPACE) # <<>>
          THEN <<py_strip(Head(lines), WHITESPACE)>> ELSE <<>>) \o read_urls(Tail(lines))

\* lines 1594-1614: the file is read and every URL is handed to the pool
BatchRead ==
    /\ dl[0].pc = "read"
    /\ \E urls \in {read_urls(batch.lines)} :
          IF ~batch.exists \/ urls = <<>>
          THEN /\ batch' = [batch EXCEPT !.pc = "returned"]
               /\ dl' = [dl EXCEPT ![0].pc = "done"]
          ELSE /\ batch' = [batch EXCEPT !.pc = "running", !.urls = urls,
                                         !.finished = [i \in 1..Len(urls) |-> "none"]]
               /\ dl' = [dl EXCEPT ![0].pc = "pool"]
    /\ UNCHANGED <<dirs, history, clock>>
    /\ run_frame

\* ThreadPoolExecutor: a thread of the pool, a new one while fewer than
\* max_workers are running, takes the next URL and calls
\* download_instagram_post
WorkerTake(w) ==
    /\ batch.pc = "running"
    /\ batch.taken < Len(batch.urls)
    /\ ~busy(w)
    /\ \A v \in POOL : v < w => busy(v)
    /\ Cardinality({v \in POOL : busy(v)}) < max_workers
    /\ \E th \in {start_instagram(batch.urls[batch.taken + 1], batch.taken + 1)} :
          /\ dl' = [dl EXCEPT ![w] = IF th.pc = "done" THEN NoThread ELSE th]
          /\ batch' = [batch EXCEPT !.taken = @ + 1,
                                    !.finished[batch.taken + 1] =
                                        IF th.pc = "done" THEN "invalid" ELSE @]
    /\ UNCHANGED <<dirs, history, clock>>
    /\ run_frame

\* lines 1614-1623: list() has every result and the with block has joined
\* the threads
BatchComplete ==
    /\ batch.pc = "running"
    /\ batch.taken = Len(batch.urls)
    /\ \A w \in POOL : ~busy(w)
    /\ batch' = [batch EXCEPT !.pc = "complete"]
    /\ dl' = [dl EXCEPT ![0].pc = "done"]
    /\ UNCHANGED <<dirs, history, clock>>
    /\ run_frame

IG_A == <<"h", "t", "t", "p", "s", ":", "/", "/", "I", "n", "s", "t", "a", "g", "r", "a", "m",
          ".", "c", "o", "m", "/", "p", "/", "A", "/">>
IG_B == <<"i", "n", "s", "t", "a", "g", "r", "a", "m", ".", "c", "o", "m", "/", "r", "e", "e",
          "l", "/", "B">>
IG_NO_CODE == <<"i", "n", "s", "t", "a", "g", "r", "a", "m", ".", "c", "o", "m", "/", "a", "l">>
YT_X == <<"h", "t", "t", "p", "s", ":", "/", "/", "y", "o", "u", "t", "u", ".", "b", "e", "/", "x">>
NO_PLATFORM == <<"h", "t", "t", "p", "s", ":", "/", "/", "e", "x", "a", "m", "p", "l", "e", ".",
                 "o", "r", "g", "/", "v">>

\* a row an earlier run left
OLD_ROW == [url |-> YT_X, status |-> SUCCESS, timestamp |-> 0 - 1]

InitRun ==
    /\ LET r == load_config(AbsentFile, DEFAULT_CONFIG_LITERAL, "ok")
           dd == py_get(r.doc, "download_directory", JStr(<<"m", "e", "d", "i", "a">>)).s
       IN  /\ cfgFile = r.file
           /\ ret = outcome(r)
           /\ config = r.doc
           /\ download_directory = dd
           /\ dirs = makedirs({}, dd)
    /\ DEFAULT_CONFIG = DEFAULT_CONFIG_LITERAL
    /\ prev = NoCall
    /\ pathCall = NoPathCall
    /\ nCalls = 0
    /\ FnIdle /\ UqIdle /\ VaultIdle
    /\ callers = [c \in WORKERS |-> NoCaller]
    /\ video = NoVideo
    /\ history \in {<<>>, <<OLD_ROW>>}
    /\ clock = 0
    /\ dl = [t \in THREADS |-> NoThread]
    /\ batch = NoBatch

NextDownload ==
    \/ \E url \in {IG_A, IG_NO_CODE, YT_X} : DownloadInstagramPost(url)
    \/ \E url \in {YT_X, IG_A, NO_PLATFORM} : DownloadYoutubeOrTiktokVideo(url)
    \/ \E installed \in BOOLEAN : EnsureFfmpeg(installed)
    \/ \E response \in RESPONSES : CheckInternet(0, response)
    \/ \E o \in LIB_OUTCOMES : InstagramPost(0, o)
    \/ \E o \in LIB_OUTCOMES : DownloadPost(0, o)
    \/ \E o \in LIB_OUTCOMES : ExtractInfo(o)
    \/ \E o \in LIB_OUTCOMES : YdlDownload(o)
    \/ \E w \in APPEND_OUTCOMES : LogDownload(0, w)
    \/ \E o \in LIB_OUTCOMES : DownloadYoutubeLikedVideos(o)

SpecDownload == InitRun /\ [][NextDownload]_vars

\* the files given to batch_download_from_file: [exists, lines]
BATCH_FILES ==
    {[exists |-> FALSE, lines |-> << IG_A >>],
     [exists |-> TRUE, lines |-> << <<" ", "\n">>, <<"\n">> >>],
     [exists |-> TRUE, lines |-> << NO_PLATFORM \o <<"\n">>, <<"\n">>, <<" ">> \o IG_A >>],
     [exists |-> TRUE,
      lines |-> << IG_A \o <<"\n">>, IG_NO_CODE \o <<"\n">>, IG_B \o <<"\n">>,
                  <<"\t", "\n">>, IG_A \o <<"\n">> >>]}

\* the network stays up once the batch has started
WORKER_RESPONSES == {"200"}

InitBatch == InitRun /\ history = <<>>

NextBatch ==
    \/ \E f \in BATCH_FILES : BatchDownloadFromFile(f)
    \/ \E response \in RESPONSES : CheckInternet(0, response)
    \/ BatchRead
    \/ \E w \in POOL : WorkerTake(w)
    \/ \E w \in POOL, response \in WORKER_RESPONSES : CheckInternet(w, response)
    \/ \E w \in POOL, o \in LIB_OUTCOMES : InstagramPost(w, o)
    \/ \E w \in POOL, o \in LIB_OUTCOMES : DownloadPost(w, o)
    \/ \E w \in POOL, a \in APPEND_OUTCOMES : LogDownload(w, a)
    \/ BatchComplete

SpecBatch == InitBatch /\ [][NextBatch]_vars

-----------------------------------------------------------------------------
(* The setup actions of the authentication menu, run in one process one    *)
(* after another; each of them calls load_config                           *)

\* config.json as earlier runs or the user left it
SETUP_CFG_FILES ==
    {AbsentFile, GarbageFile,
     JsonFile("dict", DEFAULT_CONFIG_LITERAL),
     JsonFile("dict", with_username(<<"b", "o", "b">>)),
     JsonFile("dict", py_set(DEFAULT_CONFIG_LITERAL, "mp3_quality", JStr(<<"1", "9", "3">>))),
     JsonFile("dict", py_set(DEFAULT_CONFIG_LITERAL, "download_directory", JStr(<<"d", "l">>))),
     JsonFile("dict", edit_doc(DEFAULT_CONFIG_LITERAL, "authentication", JMissing))}

\* what is typed at "Select your browser (1-5)"
BROWSER_CHOICES == {<<"2">>, <<" ", "5">>, <<"0">>, <<"6">>, <<>>, <<"x">>}

InitSetup ==
    /\ cfgFile \in SETUP_CFG_FILES
    /\ DEFAULT_CONFIG = DEFAULT_CONFIG_LITERAL
    /\ ret = NoCall
    /\ prev = NoCall
    /\ PathIdle /\ FnIdle /\ RunIdle /\ UqIdle
    /\ keyFile = [kind |-> "key", id |-> 0, mode |-> "0600"]
    /\ credFile = AbsentCred
    /\ keysMade = 0
    /\ vaultCall = NoVaultCall
    /\ procs = [p \in PROCS |-> NoProc]

ConfigureBrowserCookies(typed, w) ==
    \E r \in {configure_browser_cookies(cfgFile, DEFAULT_CONFIG, typed, w)} :
        /\ cfgFile' = r.cfg
        /\ DEFAULT_CONFIG' = r.dc
        /\ vaultCall' = [NoVaultCall EXCEPT !.op = "browser", !.plain = typed,
                            !.st = r.st, !.exc = r.exc]
        /\ UNCHANGED <<keyFile, credFile, keysMade>>
        /\ vault_frame

NextSetup ==
    \/ \E e \in ABANDONED_ENTRIES :
          SetupInstagramLogin(e.typed, e.confirm, e.password, "ok", "ok", "ok")
    \/ \E e \in ENTRIES, w \in WRITE_OUTCOMES :
          SetupInstagramLogin(e.typed, e.confirm, e.password, w, "ok", "ok")
    \/ \E typed \in BROWSER_CHOICES, w \in WRITE_OUTCOMES : ConfigureBrowserCookies(typed, w)

SpecSetup == InitSetup /\ [][NextSetup]_vars

-----------------------------------------------------------------------------
(* Two callers of _encrypt_credential running at once, one line of         *)
(* _get_encryption_key per step; afterwards each token is decrypted        *)

RACE_SECRETS == {<<"p", "w">>, <<"s", "U+00E9">>}

InitRace ==
    /\ CfgIdle /\ PathIdle /\ FnIdle /\ RunIdle /\ UqIdle
    /\ keyFile \in {AbsentKey, [kind |-> "key", id |-> 0, mode |-> "0600"]}
    /\ credFile = AbsentCred
    /\ keysMade = 0
    /\ vaultCall = NoVaultCall
    /\ procs = [p \in PROCS |-> NoProc]

race_frame == UNCHANGED <<cfgVars, pathVars, fnVars, uqVars, credFile, vaultCall,
                          runVars>>

\* line 524: the call
CallEncrypt(p, s) ==
    /\ procs[p].pc = "idle"
    /\ procs' = [procs EXCEPT ![p].pc = "test", ![p].secret = s]
    /\ UNCHANGED <<keyFile, keysMade>>
    /\ race_frame

\* line 513: key_file.exists()
KeyTest(p) ==
    /\ procs[p].pc = "test"
    /\ procs' = [procs EXCEPT ![p].pc = IF keyFile.kind # "absent" THEN "read"
                                        ELSE "generate"]
    /\ UNCHANGED <<keyFile, keysMade>>
    /\ race_frame

\* line 514: return key_file.read_bytes()
KeyRead(p) ==
    /\ procs[p].pc = "read"
    /\ procs' = [procs EXCEPT ![p].pc = "encrypt", ![p].key = keyFile.id,
                              ![p].valid = (keyFile.kind = "key")]
    /\ UNCHANGED <<keyFile, keysMade>>
    /\ race_frame

\* line 516: key = Fernet.generate_key(), a key no one had before
KeyGenerate(p) ==
    /\ procs[p].pc = "generate"
    /\ procs' = [procs EXCEPT ![p].pc = "open", ![p].key = keysMade + 1,
                              ![p].valid = TRUE]
    /\ keysMade' = keysMade + 1
    /\ UNCHANGED keyFile
    /\ race_frame

\* line 517, write_bytes: open(mode="wb") creates or empties the file
KeyOpen(p) ==
    /\ procs[p].pc = "open"
    /\ procs' = [procs EXCEPT ![p].pc = "write"]
    /\ keyFile' = [kind |-> "garbage", id |-> 0,
                   mode |-> IF keyFile.kind = "absent" THEN "0644" ELSE keyFile.mode]
    /\ UNCHANGED keysMade
    /\ race_frame

\* line 517, write_bytes: the key is written
KeyWrite(p) ==
    /\ procs[p].pc = "write"
    /\ procs' = [procs EXCEPT ![p].pc = "chmod"]
    /\ keyFile' = [kind |-> "key", id |-> procs[p].key, mode |-> keyFile.mode]
    /\ UNCHANGED keysMade
    /\ race_frame

\* lines 518-519
KeyChmod(p) ==
    /\ procs[p].pc = "chmod"
    /\ procs' = [procs EXCEPT ![p].pc = "encrypt"]
    /\ keyFile' = [keyFile EXCEPT !.mode = "0600"]
    /\ UNCHANGED keysMade
    /\ race_frame

\* lines 525-527: Fernet(key) raises ValueError for bytes that are no key
Encrypt(p) ==
    /\ procs[p].pc = "encrypt"
    /\ procs' = IF procs[p].valid
                THEN [procs EXCEPT ![p].pc = "done",
                         ![p].token = b64encode(fernet_encrypt(procs[p].key,
                                                               str_encode(procs[p].secret)))]
                ELSE [procs EXCEPT ![p].pc = "raised"]
    /\ UNCHANGED <<keyFile, keysMade>>
    /\ race_frame

\* later, every caller having returned: _decrypt_credential(token)
DecryptLater(p) ==
    /\ procs[p].pc = "done"
    /\ \A q \in PROCS : procs[q].pc \in {"done", "raised", "checked"}
    /\ \E d \in {_decrypt_credential(keyFile, keysMade, procs[p].token, "ok")} :
          /\ procs' = [procs EXCEPT ![p].pc = "checked", ![p].out = d.out]
          /\ keyFile' = d.kf
          /\ keysMade' = d.made
    /\ race_frame

NextRace ==
    \E p \in PROCS :
        \/ \E s \in RACE_SECRETS : CallEncrypt(p, s)
        \/ KeyTest(p)
        \/ KeyRead(p)
        \/ KeyGenerate(p)
        \/ KeyOpen(p)
        \/ KeyWrite(p)
        \/ KeyChmod(p)
        \/ Encrypt(p)
        \/ DecryptLater(p)

SpecRace == InitRace /\ [][NextRace]_vars

-----------------------------------------------------------------------------
(* Properties of the configuration store *)

\* the document a returned dict denotes, shared dict written out
returned_doc == json_dump(ret.doc, DEFAULT_CONFIG)
previous_doc == json_dump(prev.doc, DEFAULT_CONFIG)

\* the latest call read a file holding a JSON object
loaded_object == ret.st # "none" /\ ret.pre.kind = "json" /\ ret.pre.top = "dict"

\* the validity predicates of the data model
valid_default_format(v) == v.t = "str" /\ py_lower(v.s) \in VALID_DEFAULT_FORMATS
valid_mp3_quality(v) == v.t = "str" /\ v.s \in VALID_MP3_QUALITIES
valid_flag(v) == v.t = "bool"
valid_max_comments(v) == v.t = "int" /\ v.n >= 1 /\ v.n <= 10000
valid_authentication(v) ==
    v.t = "dict" /\ \A k \in AUTH_KEYS : v.a[k].t # "missing"

valid_document(d) ==
    /\ DOMAIN d = KEYS
    /\ valid_default_format(d["default_format"])
    /\ valid_mp3_quality(d["mp3_quality"])
    /\ \A k \in BOOL_KEYS : valid_flag(d[k])
    /\ valid_max_comments(d["max_comments"])
    /\ valid_authentication(d["authentication"])

\* C1: after load_config() returns for a parseable file whose write (if any)
\* succeeded, the returned document and the document on disk hold every
\* recognized key, the four nested ones included, each with a valid value.
C1_LoadedDocumentValid ==
    (ret.st = "ok" /\ ret.pre.kind = "json" /\ ~ret.wfail) =>
        /\ valid_document(returned_doc)
        /\ cfgFile.kind = "json" /\ cfgFile.top = "dict"
        /\ valid_document(cfgFile.doc)

\* C2: if load_config() returned a document that differs from the one the
\* file held (a key was added or corrected) and no write failed, the file
\* afterwards holds the returned document.
C2_PersistedEqualsReturned ==
    (ret.st = "ok" /\ loaded_object /\ ~ret.wfail /\ returned_doc # ret.pre.doc) =>
        cfgFile = JsonFile("dict", returned_doc)

C4_BooleanRepair ==
    \A k \in BOOL_KEYS :
        (ret.st = "ok" /\ loaded_object /\ k \in DOMAIN ret.pre.doc) =>
            ret.doc[k] = IF is_bool(ret.pre.doc[k]) THEN ret.pre.doc[k]
                         ELSE DEFAULT_CONFIG_LITERAL[k]

\* C5: load_config() never raises to its caller, whatever the file holds.
C5_NeverRaises == ret.st # "raise"

\* the max_comments values the claim calls integers, and those it calls
\* non-integer (numeric strings and booleans are left to either reading)
is_integer_value(v) == v.t = "int"
is_non_integer_value(v) ==
    \/ v.t \in {"inf", "nan", "null", "list", "dict"}
    \/ v.t = "float" /\ v.n % 10 # 0
    \/ v.t = "str" /\ py_int(v).exc # ""

\* C6: a max_comments that is non-integer, negative, zero or above 10000 is
\* repaired to 200, and an integer in 1..10000 is kept.
C6_MaxCommentsRepair ==
    (loaded_object /\ "max_comments" \in DOMAIN ret.pre.doc) =>
        LET v == ret.pre.doc["max_comments"]
        IN  /\ (is_non_integer_value(v) \/ (is_integer_value(v) /\ (v.n < 1 \/ v.n > 10000)))
                => (ret.st = "ok" /\ ret.doc["max_comments"] = JInt(200))
            /\ (is_integer_value(v) /\ v.n >= 1 /\ v.n <= 10000)
                => (ret.st = "ok" /\ ret.doc["max_comments"] = v)

\* membership in the closed sets, stated on the JSON value
in_mp3_set(v) ==
    \/ v.t = "str" /\ v.s \in VALID_MP3_QUALITIES
    \/ v.t = "int" /\ v.n \in {64, 128, 192, 256, 320, 396}
in_format_set(v) == v.t = "str" /\ py_lower(v.s) \in VALID_DEFAULT_FORMATS

\* C7: the repair pass resets mp3_quality to "192" exactly when the value is
\* outside {64,128,192,256,320,396}, and default_format to "show_all" exactly
\* when the value is not, ignoring case, one of the nine formats; a value
\* inside its set is returned as it was.
C7_EnumReset ==
    (ret.st = "ok" /\ loaded_object) =>
        /\ "mp3_quality" \in DOMAIN ret.pre.doc =>
              ret.doc["mp3_quality"] =
                  IF in_mp3_set(ret.pre.doc["mp3_quality"])
                  THEN ret.pre.doc["mp3_quality"]
                  ELSE JStr(<<"1", "9", "2">>)
        /\ "default_format" \in DOMAIN ret.pre.doc =>
              ret.doc["default_format"] =
                  IF in_format_set(ret.pre.doc["default_format"])
                  THEN ret.pre.doc["default_format"]
                  ELSE JStr(<<"s", "h", "o", "w", "_", "a", "l", "l">>)

\* a load that reset an enum setting and one that kept an upper-case format
C7_Witness ==
    /\ ret.st = "ok" /\ loaded_object
    /\ prev.st = "ok" /\ prev.pre.kind = "json" /\ prev.pre.top = "dict"
    /\ "default_format" \in DOMAIN prev.pre.doc
    /\ prev.pre.doc["default_format"] = JStr(<<"a", "v", "i">>)
    /\ prev.doc["default_format"] = JStr(<<"s", "h", "o", "w", "_", "a", "l", "l">>)

\* C8: if the file exists and cannot be parsed, load_config() returns the
\* default document and neither writes nor changes the file.
C8_UnparseableGivesDefaults ==
    (ret.st # "none" /\ ret.pre.kind \in {"garbage", "not_utf8"}) =>
        /\ ret.st = "ok"
        /\ returned_doc = DEFAULT_CONFIG_LITERAL
        /\ ~ret.wrote
        /\ cfgFile = ret.pre

\* C9: if no file exists, load_config() attempts to write the default
\* document and returns a document equal to the defaults; the file holds the
\* defaults when the write succeeded, and a failed write raises nothing.
C9_MissingFileCreated ==
    (ret.st # "none" /\ ret.pre.kind = "absent") =>
        /\ ret.st = "ok"
        /\ returned_doc = DEFAULT_CONFIG_LITERAL
        /\ ret.wrote
        /\ ~ret.wfail => cfgFile = JsonFile("dict", DEFAULT_CONFIG_LITERAL)

\* a first load whose write was refused, then a load that created the file
C9_Witness ==
    /\ prev.st = "ok" /\ prev.pre.kind = "absent" /\ prev.wfail
    /\ ret.st = "ok" /\ ret.pre.kind = "absent" /\ ~ret.wfail
    /\ cfgFile = JsonFile("dict", DEFAULT_CONFIG_LITERAL)

-----------------------------------------------------------------------------
(* Properties of the path organizer *)

organize_enabled == py_truth(py_get(config, "organize_downloads", JBool(FALSE)))

\* a field of the metadata that holds a name
has_name(v) == v.t = "str" /\ v.s # <<>>

\* the uploader the contract names: the override if given, else the
\* metadata's uploader field, else its channel field, else "Unknown"
contract_uploader(info, uploader_override) ==
    IF has_name(uploader_override) THEN uploader_override
    ELSE IF info.given /\ has_name(info.uploader) THEN info.uploader
    ELSE IF info.given /\ has_name(info.channel) THEN info.channel
    ELSE LStr(<<"U", "n", "k", "n", "o", "w", "n">>)

\* C10: with organization enabled get_organized_download_path returns
\* base_directory/platform/uploader, the uploader being the sanitized override
\* if given, else the metadata's uploader, else its channel, else "Unknown".
C10_OrganizedPath ==
    (pathCall.st = "ok" /\ organize_enabled) =>
        pathCall.path =
            os_path_join(
                os_path_join(download_directory, detect_platform_from_url(pathCall.url)),
                sanitize_filename(contract_uploader(pathCall.info, pathCall.override)))

\* C11: with organize_downloads disabled every call of
\* get_organized_download_path, whatever its URL, metadata and override,
\* returns the base download directory itself and creates no directory.
C11_DisabledReturnsBase ==
    [][(~organize_enabled /\ nCalls' # nCalls) =>
          (pathCall'.path = download_directory /\ dirs' = dirs)]_vars

\* a call with organization disabled that was given a URL of a known
\* platform, metadata with an uploader and an override
C11_Witness ==
    /\ pathCall.st = "ok" /\ ~organize_enabled
    /\ detect_platform_from_url(pathCall.url) = <<"Y", "o", "u", "T", "u", "b", "e">>
    /\ has_name(pathCall.override)
    /\ pathCall.info.given /\ has_name(pathCall.info.uploader)
    /\ pathCall.path = download_directory

-----------------------------------------------------------------------------
(* Properties of the string functions *)

unknown == <<"U", "n", "k", "n", "o", "w", "n">>

\* the reference function of sanitize_filename
reference_sanitize(s) ==
    LET blank == \A i \in 1..Len(s) : s[i] \in WHITESPACE
        r == [i \in 1..Len(s) |->
                 IF s[i] \in {"<", ">", ":", "\"", "/", "\\", "|", "?", "*"}
                 THEN "_" ELSE s[i]]
        kept == {i \in 1..Len(s) : r[i] \notin {".", " "}}
        lo == CHOOSE i \in kept : \A j \in kept : i <= j
        hi == CHOOSE i \in kept : \A j \in kept : j <= i
        stripped == IF kept = {} THEN <<>> ELSE SubSeq(r, lo, hi)
        cut == IF Len(stripped) <= 100 THEN stripped ELSE SubSeq(stripped, 1, 100)
    IN  IF blank \/ cut = <<>> THEN unknown ELSE cut

\* C12: for every input string sanitize_filename gives what the reference
\* function gives: "Unknown" for an empty or blank input, otherwise the nine
\* characters replaced with _, then dots and spaces stripped at both ends,
\* then the first 100 characters, and "Unknown" if nothing is left.
C12_SanitizeMatchesReference ==
    fnCall.fn = "sanitize_filename" => fnCall.out = reference_sanitize(fnCall.arg)

\* a name longer than 100 characters whose hundredth character is a dot
\* after the strip: the cut happened and was the last step
C12_Witness ==
    /\ fnCall.fn = "sanitize_filename"
    /\ Len(fnCall.arg) > 100
    /\ Len(fnCall.out) = 100
    /\ fnCall.out[100] = "."

\* the label of the first entry of the table, from entry i on, whose domain
\* occurs in u
RECURSIVE first_label_from(_, _)
first_label_from(u, i) ==
    IF i > Len(platform_map) THEN <<"O", "t", "h", "e", "r">>
    ELSE IF contains(u, platform_map[i][1]) THEN platform_map[i][2]
    ELSE first_label_from(u, i + 1)

\* C13: detect_platform_from_url returns the label of the first table entry
\* whose domain occurs in the lower-cased URL, "Other" if none does, and
\* the same label for the URL in upper case and in lower case.
C13_DetectFirstMatch ==
    fnCall.fn = "detect_platform_from_url" =>
        /\ fnCall.out = first_label_from(py_lower(fnCall.arg), 1)
        /\ detect_platform_from_url(py_upper(fnCall.arg)) = fnCall.out
        /\ detect_platform_from_url(py_lower(fnCall.arg)) = fnCall.out

\* a URL with upper-case letters that holds two domains of the table, the
\* later one of the table first in the URL
C13_Witness ==
    /\ fnCall.fn = "detect_platform_from_url"
    /\ fnCall.arg # py_lower(fnCall.arg)
    /\ contains(py_lower(fnCall.arg), platform_map[12][1])
    /\ fnCall.out = <<"T", "i", "k", "T", "o", "k">>

-----------------------------------------------------------------------------
(* Properties of get_unique_filename *)

\* base + " (n)" + extension
nth_name(filename, n) ==
    splitext(filename).base \o <<" ", "(">> \o int_to_str(n) \o <<")">>
        \o splitext(filename).ext

\* the smallest n >= 1 whose name is unused; one exists among the first
\* Cardinality(files) + 1
smallest_unused(filename) ==
    LET unused == {n \in 1..(Cardinality(files) + 1) : nth_name(filename, n) \notin files}
    IN  CHOOSE n \in unused : \A m \in unused : n <= m

\* C14: get_unique_filename returns the path itself when it does not exist,
\* otherwise base (n)ext for the smallest n >= 1 whose name is unused; the
\* returned path does not exist; the result is a function of the path and
\* the existing files; the counter never passes the number of existing
\* files, and a search that has begun ends.
C14_UniqueFilename ==
    /\ [](uq.pc = "done" =>
            /\ uq.result \notin files
            /\ uq.result = IF uq.filename \notin files THEN uq.filename
                           ELSE nth_name(uq.filename, smallest_unused(uq.filename)))
    /\ [](uq.pc = "loop" => uq.counter <= Cardinality(files))
    /\ ((uq.pc = "loop") ~> (uq.pc = "done"))

\* a.mp4 and a (1).mp4 exist and the call returned a (2).mp4
C14_Witness ==
    /\ uq.pc = "done"
    /\ uq.filename = <<"a", ".", "m", "p", "4">>
    /\ nth_name(<<"a", ".", "m", "p", "4">>, 1) \in files
    /\ uq.counter = 2
    /\ uq.result = <<"a", " ", "(", "2", ")", ".", "m", "p", "4">>

-----------------------------------------------------------------------------
(* Properties of the credential vault *)

\* what a ciphertext decrypts to under the key a key file holds: [ok, s]
decrypts_to(kf, c) ==
    LET d == b64decode(c)
        m == fernet_decrypt(kf.id, d.c)
        t == bytes_decode(m.data)
    IN  IF kf.kind = "key" /\ d.exc = "" /\ m.ok /\ t.ok
        THEN [ok |-> TRUE, s |-> t.s] ELSE [ok |-> FALSE, s |-> <<>>]

\* C15: with the key file left alone between the two calls,
\* _decrypt_credential(_encrypt_credential(s)) returns s, for every string s.
C15_RoundTrip ==
    vaultCall.op = "round_trip" => (vaultCall.st = "ok" /\ vaultCall.out = vaultCall.plain)

\* C16: _decrypt_credential never raises, and returns "" whenever the text
\* is not an intact token made with the key of a usable key file.
C16_DecryptFailsEmpty ==
    vaultCall.op = "decrypt" =>
        /\ vaultCall.st = "ok"
        /\ vaultCall.exc = ""
        /\ decrypts_to(keyFile, vaultCall.cipher).ok
              => vaultCall.out = decrypts_to(keyFile, vaultCall.cipher).s
        /\ ~decrypts_to(keyFile, vaultCall.cipher).ok => vaultCall.out = <<>>

\* an intact token given to _decrypt_credential while the key file holds no key
C16_Witness ==
    /\ vaultCall.op = "decrypt"
    /\ keyFile.kind = "garbage"
    /\ vaultCall.cipher.t = "b64" /\ vaultCall.cipher.intact
    /\ vaultCall.out = <<>>

\* C17: once the key file exists no credential operation of the process
\* changes it; _get_encryption_key returns the stored bytes; every ciphertext
\* that could be decrypted before the operation decrypts to the same after.
C17_KeyFileStable ==
    [][keyFile.kind # "absent" =>
          /\ keyFile' = keyFile
          /\ vaultCall'.op = "get_key" =>
                (vaultCall'.st = "ok" /\ vaultCall'.outc.key = keyFile.id)
          /\ \A c \in CIPHERTEXTS(keyFile.id) \cup {credFile.pw} :
                decrypts_to(keyFile, c).ok => decrypts_to(keyFile', c) = decrypts_to(keyFile, c)
      ]_vars

\* a setup that succeeded under the key an earlier run left, the earlier
\* key still in the file
C17_Witness ==
    /\ vaultCall.op = "setup" /\ vaultCall.ret
    /\ keyFile.kind = "key" /\ keyFile.id = 0
    /\ decrypts_to(keyFile, credFile.pw).ok
    /\ decrypts_to(keyFile, credFile.pw).s = vaultCall.plain

\* C18: the key file is created by an encryption only: a decryption or a
\* read of the credentials made while no key file exists creates none.
C18_KeyCreatedByEncryption ==
    [][(keyFile.kind = "absent" /\ vaultCall'.op \in {"decrypt", "read"})
          => keyFile'.kind = "absent"]_vars

\* the strings a configuration file holds
config_strings(file) ==
    IF file.kind # "json" THEN {}
    ELSE {file.doc[k].s : k \in {x \in DOMAIN file.doc : file.doc[x].t = "str"}}
         \cup UNION {{file.doc[k].a[j].s : j \in {y \in AUTH_KEYS : file.doc[k].a[y].t = "str"}} :
                        k \in {x \in DOMAIN file.doc : file.doc[x].t = "dict"}}

\* C20: after setup_instagram_login returned True the credentials file
\* holds the password as ciphertext, config.json holds it in no form, and
\* the key file and the credentials file both have mode 0600.
C20_SetupStoresCiphertext ==
    (vaultCall.op = "setup" /\ vaultCall.ret) =>
        /\ credFile.kind = "json" /\ credFile.pw.t = "b64"
        /\ decrypts_to(keyFile, credFile.pw).s = vaultCall.plain
        /\ vaultCall.plain \notin config_strings(cfgFile)
        /\ credFile.mode = "0600"
        /\ keyFile.mode = "0600"

\* C19: when callers of _get_encryption_key that ran at once ended with
\* different keys, a secret encrypted under a key that is not the one left
\* in the key file decrypts to "", and the secret under the key that is left
\* decrypts to itself.
C19_RaceLosesKey ==
    \A p \in PROCS :
        procs[p].pc = "checked" =>
            procs[p].out = IF keyFile.kind = "key" /\ procs[p].token.key = keyFile.id
                           THEN procs[p].secret ELSE <<>>

\* both callers found no key file, returned different keys, and the secret
\* of caller 1 is lost while that of caller 2 is read back
C19_Witness ==
    /\ procs[1].pc = "checked" /\ procs[2].pc = "checked"
    /\ procs[1].key # procs[2].key
    /\ procs[1].key > 0 /\ procs[2].key > 0
    /\ procs[1].secret # <<>>
    /\ procs[1].out = <<>>
    /\ procs[2].out = procs[2].secret

\* the username config.json holds, "" when it holds none
stored_username(file) ==
    IF file.kind = "json" /\ file.top = "dict" /\ "authentication" \in DOMAIN file.doc
       /\ file.doc["authentication"].t = "dict"
       /\ file.doc["authentication"].a["instagram_username"].t # "missing"
    THEN file.doc["authentication"].a["instagram_username"]
    ELSE LStr(<<>>)

\* C21: is_instagram_authenticated() returns True exactly when the
\* configured username is non-empty, the credentials file exists and its
\* ciphertext decrypts under the current key to a non-empty password; in
\* every other case it returns False, and download_instagram_saved_posts
\* then attempts no login.
C21_AuthenticatedIffCredentials ==
    [][vaultCall'.op \in {"is_authenticated", "saved_posts"} =>
          /\ vaultCall'.st = "ok"
          /\ vaultCall'.ret <=>
                /\ py_truth(stored_username(cfgFile))
                /\ credFile.kind = "json" /\ credFile.top = "dict"
                /\ decrypts_to(keyFile, credFile.pw).ok
                /\ decrypts_to(keyFile, credFile.pw).s # <<>>
          /\ ~vaultCall'.ret => ~vaultCall'.login
      ]_vars

\* C24: whenever setup_instagram_login returns True, config.json holds a
\* non-empty instagram_username equal to the entered name without its
\* leading @, and is_instagram_authenticated() called directly afterwards
\* returns True.
C24_SetupStoresUsername ==
    [][/\ (vaultCall'.op = "setup" /\ vaultCall'.ret) =>
              /\ vaultCall'.username.s # <<>>
              /\ stored_username(cfgFile') = vaultCall'.username
       /\ (vaultCall.op = "setup" /\ vaultCall.ret /\ vaultCall'.op = "is_authenticated") =>
              (vaultCall'.st = "ok" /\ vaultCall'.ret)
      ]_vars

\* C27: no sequence of load_config, repair and setup actions changes
\* DEFAULT_CONFIG, its nested authentication mapping included.
C27_DefaultConfigConstant == DEFAULT_CONFIG = DEFAULT_CONFIG_LITERAL

\* every setting of the file f other than authentication.own has the same
\* value in the file g
others_kept(f, g, own) ==
    (f.kind = "json" /\ f.top = "dict") =>
        /\ g.kind = "json" /\ g.top = "dict"
        /\ \A k \in (DOMAIN f.doc) \ {"authentication"} :
              k \in DOMAIN g.doc /\ g.doc[k] = f.doc[k]
        /\ ("authentication" \in DOMAIN f.doc /\ f.doc["authentication"].t = "dict") =>
              /\ "authentication" \in DOMAIN g.doc
              /\ g.doc["authentication"].t = "dict"
              /\ \A j \in AUTH_KEYS \ {own} :
                    g.doc["authentication"].a[j] = f.doc["authentication"].a[j]

C28_SanitizedIsSafeComponent ==
    fnCall.fn = "sanitize_filename" =>
        /\ fnCall.out # <<>>
        /\ Len(fnCall.out) <= 100
        /\ \A i \in 1..Len(fnCall.out) :
              \A j \in 1..Len(invalid_chars) : fnCall.out[i] # invalid_chars[j]
        /\ fnCall.out[1] \notin {".", " "}
        /\ fnCall.out[Len(fnCall.out)] \notin {".", " "}
        /\ sanitize_filename(LStr(fnCall.out)) = fnCall.out

\* every setting of the file g other than authentication.own has the value
\* load_config returns for the file f
others_as_loaded(f, dc, g, own) ==
    LET d == load_config(f, dc, "ok").doc
    IN  /\ g.kind = "json" /\ g.top = "dict"
        /\ DOMAIN g.doc = DOMAIN d
        /\ \A k \in (DOMAIN d) \ {"authentication"} : g.doc[k] = d[k]
        /\ g.doc["authentication"].t = "dict"
        /\ \A j \in AUTH_KEYS \ {own} :
              g.doc["authentication"].a[j] = auth_dict(d, dc).a[j]

C22_ConcurrentOrganize ==
    \A c \in WORKERS :
        /\ callers[c].st # "raise"
        /\ callers[c].pc = "returned" =>
              /\ callers[c].path \in dirs
              /\ \A d \in WORKERS :
                    (/\ callers[d].pc = "returned"
                     /\ callers[d].url = callers[c].url
                     /\ callers[d].uploader = callers[c].uploader)
                        => callers[d].path = callers[c].path

\* two callers were creating the same directory at once: both returned its
\* path, and the second found it made by the first
C22_Witness ==
    /\ callers[1].pc = "returned" /\ callers[2].pc = "returned"
    /\ callers[1].n = 1 /\ callers[2].n = 1
    /\ callers[1].url = callers[2].url
    /\ callers[1].path = callers[2].path
    /\ Len(callers[1].path) > Len(download_directory)
    /\ callers[2].clash
    /\ callers[1].st = "" /\ callers[2].st = ""

\* C25: the output name of a video (non-mp3) download is not the name of a
\* file an earlier download left in the directory.
C25_VideoNameNotReused ==
    (video.n > 0 /\ video.choice # <<"m", "p", "3">>) => video.output \notin video.before

\* the operation of thread t is an attempt whose URL passed the validation
validated(th) ==
    \/ th.op = "instagram" /\ is_valid_platform_url(th.url, INSTAGRAM_DOMAINS)
    \/ th.op = "youtube" /\ is_valid_platform_url(th.url, SUPPORTED_DOMAINS)

the_row(t) == [url |-> dl[t].url, status |-> dl[t].status, timestamp |-> clock]

\* C23 as stated: an attempt with a validated URL that has ended has
\* appended exactly one record to the history log.  It fails when the
\* history file cannot be opened: log_download logs the IOError and writes
\* nothing
C23_OneRecordPerAttempt ==
    (dl[0].pc = "done" /\ validated(dl[0])) => count(dl[0].events, "append") = 1

\* C23, amended: the history only changes by log_download appending the row
\* (url, status, time of the call) of the attempt that ends; an attempt with
\* a validated URL that runs to its end calls log_download exactly once,
\* after its library calls, and that call appends one row when the history
\* file can be opened and none when it cannot; the status is "Success"
\* exactly when the download call returned without an exception and starts
\* with "Failed" otherwise; an attempt whose URL is rejected logs nothing
C23_OneLogCallPerAttempt ==
    [][/\ history' # history =>
             \E t \in THREADS : dl[t].pc = "log" /\ history' = Append(history, the_row(t))
       /\ \A t \in THREADS :
             (dl[t].pc = "log" /\ dl'[t].pc # "log") =>
                /\ validated(dl[t])
                /\ count(dl[t].events, "log") = 0
                /\ history' \in {history, Append(history, the_row(t))}
                /\ dl[t].status = SUCCESS <=>
                       (count(dl[t].events, "download") = 1 /\ ~dl[t].raised)
                /\ dl[t].status # SUCCESS =>
                       /\ Len(dl[t].status) >= 6
                       /\ SubSeq(dl[t].status, 1, 6) = <<"F", "a", "i", "l", "e", "d">>
       /\ (dl'[0].pc = "done" /\ dl'[0].op \in {"instagram", "youtube"}) =>
             /\ count(dl'[0].events, "log") = IF validated(dl'[0]) THEN 1 ELSE 0
             /\ count(dl'[0].events, "append") <= 1
             /\ validated(dl'[0]) => dl'[0].events[Len(dl'[0].events)] \in {"log", "append"}
      ]_vars

\* a download that succeeded has been appended behind the row of an earlier
\* run
C23_Witness ==
    /\ dl[0].pc = "done" /\ dl[0].op = "youtube"
    /\ Len(history) = 2 /\ history[1] = OLD_ROW
    /\ history[2] = [url |-> YT_X, status |-> SUCCESS, timestamp |-> 0]

\* the library is called (an "extract" or "download" event) only behind a
\* check that succeeded in the same operation
checked_first(events) ==
    \A i \in 1..Len(events) :
        events[i] \in {"extract", "download"} => \E j \in 1..(i - 1) : events[j] = "check_ok"

\* C30: in every download operation no call of the library comes before a
\* connectivity check that succeeded in the same operation; a URL that
\* fails the validation causes no check and no library call; and
\* ensure_internet_connection repeats the check until one succeeds and
\* returns exactly then
C30_CheckedBeforeLibrary ==
    [][\A t \in THREADS :
          /\ checked_first(dl'[t].events)
          /\ (dl'[t].op \in {"instagram", "youtube"} /\ ~validated(dl'[t])) =>
                dl'[t].events = <<>>
          /\ dl[t].pc = "ensure" =>
                (dl'[t].pc # "ensure" <=>
                    /\ Len(dl'[t].events) = Len(dl[t].events) + 1
                    /\ dl'[t].events[Len(dl'[t].events)] = "check_ok")
      ]_vars

rows_of(url) == Cardinality({i \in 1..Len(history) : history[i].url = url})
tasks_of(url, hows) ==
    Cardinality({i \in 1..Len(batch.urls) : batch.urls[i] = url /\ batch.finished[i] \in hows})
valid_line(i) == is_valid_platform_url(batch.urls[i], INSTAGRAM_DOMAINS)

\* C29 as stated, its last part: when the batch reports completion the
\* history holds exactly one record per line with a valid Instagram URL.
\* It fails when the history file cannot be opened for a record
C29_OneRecordPerValidLine ==
    batch.pc = "complete" =>
        \A i \in 1..Len(batch.urls) :
            rows_of(batch.urls[i]) =
                Cardinality({j \in 1..Len(batch.urls) : batch.urls[j] = batch.urls[i] /\ valid_line(j)})

\* C29, amended: the batch hands every non-blank line, stripped, to
\* download_instagram_post exactly once (a task is waiting, or run by one
\* thread, or finished), at most 3 are in progress at any time, completion
\* is reported only when every task has finished whatever the outcome of
\* the others, and the history then holds one record for every line with a
\* valid Instagram URL whose log_download could open the history file, and
\* none for the other lines
C29_BatchRunsEveryLine ==
    /\ Cardinality({w \in POOL : busy(w)}) <= 3
    /\ batch.pc \in {"running", "complete"} =>
          /\ batch.urls = read_urls(batch.lines)
          /\ \A i \in 1..Len(batch.lines) :
                (\E k \in 1..Len(batch.lines[i]) : batch.lines[i][k] \notin WHITESPACE)
                   => \E j \in 1..Len(batch.urls) :
                         batch.urls[j] = py_strip(batch.lines[i], WHITESPACE)
          /\ Len(batch.urls) =
                Cardinality({i \in 1..Len(batch.lines) :
                               \E k \in 1..Len(batch.lines[i]) : batch.lines[i][k] \notin WHITESPACE})
          /\ \A i \in 1..Len(batch.urls) :
                LET running == {w \in POOL : busy(w) /\ dl[w].task = i}
                IN  /\ Cardinality(running) <= 1
                    /\ i > batch.taken => running = {} /\ batch.finished[i] = "none"
                    /\ i <= batch.taken => (batch.finished[i] = "none" <=> running # {})
                    /\ \A w \in running : dl[w].url = batch.urls[i]
                    /\ batch.finished[i] = "invalid" => ~valid_line(i)
                    /\ batch.finished[i] \in {"logged", "unlogged"} => valid_line(i)
    /\ batch.pc = "complete" =>
          /\ \A w \in POOL : ~busy(w)
          /\ \A i \in 1..Len(batch.urls) :
                /\ batch.finished[i] # "none"
                /\ rows_of(batch.urls[i]) = tasks_of(batch.urls[i], {"logged"})
          /\ Len(history) = Cardinality({i \in 1..Len(batch.urls) : batch.finished[i] = "logged"})

\* the batch of four URLs is complete: a post whose download failed and
\* the URL without a shortcode are recorded as failed, the others as
\* successes, one row per line
C29_Witness ==
    /\ batch.pc = "complete"
    /\ Len(batch.urls) = 4 /\ Len(history) = 4
    /\ rows_of(IG_A) = 2
    /\ \E i, j \in 1..4 : /\ history[i].status = SUCCESS
                           /\ history[j].status = failed(<<"4", "0", "4">>)
    /\ \E i \in 1..4 : history[i] .url = IG_NO_CODE /\ history[i].status = failed(INVALID_URL_FORMAT)
====
